---------------------------- MODULE Spec2Model ----------------------------
(***************************************************************************)
(* Firebird Core Framework: the hook dispatcher (PluginManager), the       *)
(* connection lifecycle (ConnectionManager) and the query engine           *)
(* (QueryService), as a state machine of asynchronous calls.  A call's     *)
(* steps are the code between two awaits; steps of different calls         *)
(* interleave as the event loop allows.                                    *)
(***************************************************************************)
EXTENDS Integers, Sequences, FiniteSets, TLC

(***************************************************************************)
(* SQL text: a sequence of one-character strings.                          *)
(***************************************************************************)
Lower == <<"a","b","c","d","e","f","g","h","i","j","k","l","m",
           "n","o","p","q","r","s","t","u","v","w","x","y","z">>
UpperL == <<"A","B","C","D","E","F","G","H","I","J","K","L","M",
            "N","O","P","Q","R","S","T","U","V","W","X","Y","Z">>
Digits == {"0","1","2","3","4","5","6","7","8","9"}

UpperChar(ch) ==
  IF \E i \in 1..26 : Lower[i] = ch
    THEN UpperL[CHOOSE i \in 1..26 : Lower[i] = ch]
    ELSE ch

\* the text with its letters as they are
sameCase(s) == s

\* String.prototype.toUpperCase
toUpperCase(s) == [i \in 1..Len(s) |-> UpperChar(s[i])]

\* \s of the regular expressions, and the characters trim() removes
IsSpace(ch) == ch \in {" ", "\t", "\n"}

\* \w of the regular expressions
IsWord(ch) ==
  \/ \E i \in 1..26 : Lower[i] = ch \/ UpperL[i] = ch
  \/ ch \in Digits
  \/ ch = "_"

\* String.prototype.trim
trim(s) ==
  LET keep == {i \in 1..Len(s) : ~IsSpace(s[i])}
  IN IF keep = {} THEN <<>>
     ELSE SubSeq(s, CHOOSE i \in keep : \A j \in keep : i <= j,
                    CHOOSE i \in keep : \A j \in keep : i >= j)

\* w occurs in s at position i
HasAt(s, i, w) ==
  /\ i >= 1
  /\ i + Len(w) - 1 <= Len(s)
  /\ SubSeq(s, i, i + Len(w) - 1) = w

\* String.prototype.includes
includes(s, w) == \E i \in 1..Len(s) : HasAt(s, i, w)

\* every character of s[a..b] is white space (true of an empty range)
AllSpace(s, a, b) == \A i \in a..b : IsSpace(s[i])

\* '.' of the regular expressions matches anything but a line break
NoLineBreak(s, a, b) == \A i \in a..b : s[i] # "\n"

IsQuote(ch) == ch \in {"'", "\""}

\* \b at the boundary between position i-1 and position i
WordBoundary(s, i) ==
  LET before == i > 1 /\ i - 1 <= Len(s) /\ IsWord(s[i-1])
      after == i >= 1 /\ i <= Len(s) /\ IsWord(s[i])
  IN before # after

kwDROP == <<"D","R","O","P">>
kwTRUNCATE == <<"T","R","U","N","C","A","T","E">>
kwALTER == <<"A","L","T","E","R">>
kwCREATE == <<"C","R","E","A","T","E">>
kwDELETE == <<"D","E","L","E","T","E">>
kwUPDATE == <<"U","P","D","A","T","E">>
kwINSERT == <<"I","N","S","E","R","T">>
kwOR == <<"O","R">>
kwAND == <<"A","N","D">>

\* a read path with no list of write operations
noOperations == <<>>

\* the arrays of validateSql and validateSqlForTransaction, in their order
dangerousKeywords == <<kwDROP, kwTRUNCATE, kwALTER, kwCREATE>>
writeOperations == <<kwDELETE, kwUPDATE, kwINSERT>>

\* `Keyword nao permitido: ${keyword}`
KeywordError(kw) == <<"Keyword nao permitido", kw>>
InjectionError == <<"Padrao de injecao SQL detectado">>
Valid == [valid |-> TRUE, error |-> <<>>]
Invalid(e) == [valid |-> FALSE, error |-> e]

\* the first keyword of the list, in list order, that the text includes
FirstKeyword(text, list) ==
  LET hits == {i \in 1..Len(list) : includes(text, list[i])}
  IN IF hits = {} THEN 0 ELSE CHOOSE i \in hits : \A j \in hits : i <= j

\* /(;|\-\-|\#|\/\*|\*\/)/gi
CommentPattern(s) ==
  \E w \in {<<";">>, <<"-","-">>, <<"#">>, <<"/","*">>, <<"*","/">>} :
    includes(s, w)

\* /('|")\s*(OR|AND)\s*('|").*('|")\s*=\s*('|")/gi
QuotedTautologyPattern(s) ==
  LET u == toUpperCase(s)
      n == Len(s)
  IN \E i \in 1..n : \E j \in (i+1)..n : \E w \in {kwOR, kwAND} :
       /\ IsQuote(s[i])
       /\ AllSpace(s, i + 1, j - 1)
       /\ HasAt(u, j, w)
       /\ \E k \in (j + Len(w))..n : \E m \in (k+1)..n :
            /\ AllSpace(s, j + Len(w), k - 1)
            /\ IsQuote(s[k])
            /\ NoLineBreak(s, k + 1, m - 1)
            /\ IsQuote(s[m])
            /\ \E e \in (m+1)..n : \E q \in (e+1)..n :
                 /\ AllSpace(s, m + 1, e - 1)
                 /\ s[e] = "="
                 /\ AllSpace(s, e + 1, q - 1)
                 /\ IsQuote(s[q])

\* /EXEC\s*\(|SP_|XP_/gi
ExecPattern(s) ==
  LET u == toUpperCase(s)
      n == Len(s)
  IN \/ \E i \in 1..n : \E p \in (i+4)..n :
          /\ HasAt(u, i, <<"E","X","E","C">>)
          /\ AllSpace(s, i + 4, p - 1)
          /\ s[p] = "("
     \/ includes(u, <<"S","P","_">>)
     \/ includes(u, <<"X","P","_">>)

containsSqlInjectionPatterns(sql) ==
  CommentPattern(sql) \/ QuotedTautologyPattern(sql) \/ ExecPattern(sql)

\* /\b(OR|AND)\s+1\s*=1\b/i
falseConditionPattern(s) ==
  LET u == toUpperCase(s)
      n == Len(s)
  IN \E i \in 1..n : \E w \in {kwOR, kwAND} : \E a \in (i + Len(w) + 1)..n :
       /\ WordBoundary(s, i)
       /\ HasAt(u, i, w)
       /\ AllSpace(s, i + Len(w), a - 1)
       /\ s[a] = "1"
       /\ \E e \in (a+1)..n :
            /\ AllSpace(s, a + 1, e - 1)
            /\ HasAt(s, e, <<"=","1">>)
            /\ WordBoundary(s, e + 2)

\* QueryService.validateSql: the read path
validateSql(sql) ==
  LET normalizedSql == toUpperCase(trim(sql))
      d == FirstKeyword(normalizedSql, dangerousKeywords)
      w == FirstKeyword(normalizedSql, writeOperations)
  IN IF d # 0 THEN Invalid(KeywordError(dangerousKeywords[d]))
     ELSE IF w # 0 THEN Invalid(KeywordError(writeOperations[w]))
     ELSE IF containsSqlInjectionPatterns(sql) THEN Invalid(InjectionError)
     ELSE IF falseConditionPattern(normalizedSql) THEN Invalid(InjectionError)
     ELSE Valid

\* QueryService.validateSqlForTransaction: the write path
validateSqlForTransaction(sql) ==
  LET normalizedSql == toUpperCase(trim(sql))
      d == FirstKeyword(normalizedSql, dangerousKeywords)
  IN IF d # 0 THEN Invalid(KeywordError(dangerousKeywords[d]))
     ELSE IF containsSqlInjectionPatterns(sql) THEN Invalid(InjectionError)
     ELSE Valid


(***************************************************************************)
(* Configuration objects.  A pool object is an ordered list of             *)
(* <<key, value>> pairs, in insertion order as Object.entries yields them; *)
(* a FirebirdConfig is a function from the keys it holds to their values.  *)
(***************************************************************************)
Undefined == "undefined"

HasKey(obj, key) == \E i \in 1..Len(obj) : obj[i][1] = key

\* obj[key], undefined when the key is absent
GetKey(obj, key) ==
  IF HasKey(obj, key)
    THEN obj[CHOOSE i \in 1..Len(obj) : obj[i][1] = key][2]
    ELSE Undefined

\* obj[key] = value: an existing key keeps its place, a new one goes last
PutKey(obj, key, value) ==
  IF HasKey(obj, key)
    THEN [i \in 1..Len(obj) |-> IF obj[i][1] = key THEN <<key, value>> ELSE obj[i]]
    ELSE Append(obj, <<key, value>>)

\* { ...a, ...b }
RECURSIVE SpreadObj(_, _)
SpreadObj(a, b) ==
  IF b = <<>> THEN a
  ELSE SpreadObj(PutKey(a, b[1][1], b[1][2]), Tail(b))

\* obj[key] || dflt, for a number-valued key
KeyOr(obj, key, dflt) ==
  IF HasKey(obj, key) /\ GetKey(obj, key) # 0 THEN GetKey(obj, key) ELSE dflt

Field(cfg, key) == IF key \in DOMAIN cfg THEN cfg[key] ELSE Undefined

\* a string-valued field || dflt
FieldOr(cfg, key, dflt) ==
  IF key \in DOMAIN cfg /\ cfg[key] # Undefined /\ cfg[key] # "" THEN cfg[key] ELSE dflt

\* a number-valued field || dflt
NumFieldOr(cfg, key, dflt) ==
  IF key \in DOMAIN cfg /\ cfg[key] # 0 THEN cfg[key] ELSE dflt

PoolOf(cfg) == IF "pool" \in DOMAIN cfg THEN cfg.pool ELSE <<>>

DefaultPort == 3050
DefaultAcquireTimeout == 30000
DefaultPoolMin == 2
DefaultPoolMax == 10

\* ConnectionManager.constructor: this.config
ConstructConfig(cfg) ==
  [ host |-> FieldOr(cfg, "host", "localhost"),
    port |-> NumFieldOr(cfg, "port", DefaultPort),
    username |-> FieldOr(cfg, "username", "SYSDBA"),
    password |-> Field(cfg, "password"),
    database |-> Field(cfg, "database"),
    acquireTimeout |-> NumFieldOr(cfg, "acquireTimeout", DefaultAcquireTimeout),
    clientLibPath |-> Field(cfg, "clientLibPath"),
    pool |-> SpreadObj(
               << <<"min", KeyOr(PoolOf(cfg), "min", DefaultPoolMin)>>,
                  <<"max", KeyOr(PoolOf(cfg), "max", DefaultPoolMax)>> >>,
               PoolOf(cfg)),
    options |-> IF "options" \in DOMAIN cfg THEN cfg.options ELSE <<>> ]

\* a merge that takes the partial config's pool object in place of the current one
MergeConfigShallow(cur, partial) ==
  [key \in DOMAIN cur \cup DOMAIN partial |->
     IF key \in DOMAIN partial THEN partial[key] ELSE cur[key]]

\* updateConnection: { ...this.config, ...config, pool: { ...this.config.pool, ...config.pool } }
MergeConfig(cur, partial) ==
  [key \in DOMAIN cur \cup DOMAIN partial |->
     IF key = "pool" THEN SpreadObj(cur.pool, PoolOf(partial))
     ELSE IF key \in DOMAIN partial THEN partial[key]
     ELSE cur[key]]

\* a store update that writes every key of the partial config, pool included
StoreAfterUpdateAll(st, partial) ==
  [key \in DOMAIN st \cup DOMAIN partial |->
     IF key \in DOMAIN partial THEN partial[key] ELSE st[key]]

\* updateConnection: configManager.set(key, value) for every key but pool
StoreAfterUpdate(st, partial) ==
  [key \in DOMAIN st \cup (DOMAIN partial \ {"pool"}) |->
     IF key \in DOMAIN partial /\ key # "pool" THEN partial[key] ELSE st[key]]

validPoolOptions ==
  { "min", "max", "acquireTimeoutMillis", "createTimeoutMillis",
    "destroyTimeoutMillis", "idleTimeoutMillis", "reapIntervalMillis",
    "createRetryIntervalMillis", "validate", "afterCreate",
    "maxConnectionLifetimeMillis", "maxConnectionLifetimeJitterMillis",
    "acquireTimeout", "createTimeout", "destroyTimeout", "idleTimeout",
    "reapInterval", "createRetryInterval", "propagateCreateError" }

\* a mapping that leaves idleTimeout and reapInterval under their legacy names
propertyMappingPartial ==
  << <<"acquireTimeout", "acquireTimeoutMillis">>,
     <<"createTimeout", "createTimeoutMillis">>,
     <<"destroyTimeout", "destroyTimeoutMillis">>,
     <<"createRetryInterval", "createRetryIntervalMillis">> >>

propertyMapping ==
  << <<"acquireTimeout", "acquireTimeoutMillis">>,
     <<"createTimeout", "createTimeoutMillis">>,
     <<"destroyTimeout", "destroyTimeoutMillis">>,
     <<"idleTimeout", "idleTimeoutMillis">>,
     <<"reapInterval", "reapIntervalMillis">>,
     <<"createRetryInterval", "createRetryIntervalMillis">> >>

\* the loop of sanitizePoolConfig over Object.entries(poolOptions)
RECURSIVE SanitizeEntries(_, _)
SanitizeEntries(entries, sanitizedPool) ==
  IF entries = <<>> THEN sanitizedPool
  ELSE LET key == entries[1][1]
           value == entries[1][2]
           newKey == GetKey(propertyMapping, key)
       IN SanitizeEntries(Tail(entries),
            IF HasKey(propertyMapping, key)
              THEN IF newKey \in validPoolOptions
                     THEN PutKey(sanitizedPool, newKey, value)
                     ELSE sanitizedPool
            ELSE IF key \in validPoolOptions
              THEN PutKey(sanitizedPool, key, value)
            ELSE sanitizedPool)

sanitizePoolConfig(poolOptions) ==
  LET s0 == SanitizeEntries(poolOptions, <<>>)
      s1 == IF HasKey(s0, "min") THEN s0 ELSE PutKey(s0, "min", DefaultPoolMin)
  IN IF HasKey(s1, "max") THEN s1 ELSE PutKey(s1, "max", DefaultPoolMax)

\* connect: the pool settings handed to knex
PoolSettings(cfg) ==
  sanitizePoolConfig(SpreadObj(cfg.pool, << <<"acquireTimeout", cfg.acquireTimeout>> >>))

\* connect: knexConfig
KnexConfig(cfg) ==
  [ host |-> cfg.host, port |-> cfg.port, user |-> cfg.username,
    password |-> cfg.password, database |-> cfg.database,
    clientLibPath |-> cfg.clientLibPath,
    pool |-> PoolSettings(cfg),
    acquireConnectionTimeout |-> cfg.acquireTimeout ]

(***************************************************************************)
(* Bounds of the model.                                                    *)
(***************************************************************************)
\* calls started in one behaviour
MaxCalls == 3
\* calls started in one behaviour, when calls may overlap
MaxRaceCalls == 2
\* failures injected into one call, when calls may overlap
MaxRaceFaults == 1
\* observers registered
MaxObservers == 2
\* observers registered, when calls may overlap
MaxRaceObservers == 1
\* failures injected into one call: driver errors, throwing observer callbacks
MaxFaults == 2
MaxWindowCalls == 3
MaxWindowFaults == 1
MaxWindowObservers == 1

\* calls in flight at the same time
Slots == {1, 2}

(***************************************************************************)
(* Observers (PluginInterface implementations): what each one implements.  *)
(* Only init is mandatory; N lacks it.                                     *)
(***************************************************************************)
Phases ==
  { "init", "beforeConnect", "afterConnect", "beforeQuery", "afterQuery",
    "beforeDisconnect", "onError", "destroy" }

Observers == {"A", "B", "N"}

Capabilities(o) ==
  CASE o = "A" -> Phases
    [] o = "B" -> {"init", "beforeConnect", "afterQuery", "onError"}
    [] o = "N" -> {"beforeQuery", "onError"}

(***************************************************************************)
(* Inputs the callers supply.                                              *)
(***************************************************************************)
SqlSelect == <<"S","E","L","E","C","T"," ","1">>
SqlPadded == <<" ","s","e","l","e","c","t"," ","1"," ">>
SqlDrop == <<"d","r","o","p"," ","t">>
SqlUpdate == <<"U","P","D","A","T","E"," ","t">>
SqlOrTrue == <<"a"," ","O","R"," ","1","=","1">>

QueryRequests ==
  { [sql |-> SqlSelect, bindings |-> <<7>>], [sql |-> SqlPadded], [sql |-> SqlDrop] }

TransactionRequests ==
  { << [sql |-> SqlUpdate, bindings |-> <<7>>], [sql |-> SqlSelect] >>,
    << [sql |-> SqlUpdate], [sql |-> SqlDrop] >> }

SelectRequests ==
  { [ tableName |-> "t",
      conditions |-> << <<"a", 1>>, <<"b", 2>> >>,
      options |-> [ limit |-> 10, offset |-> 5,
                    orderBy |-> [field |-> "x", direction |-> "desc"] ] ],
    [ tableName |-> "t", options |-> [orderBy |-> [field |-> "x"]] ] }

PartialConfigs ==
  { [host |-> "db2", pool |-> << <<"min", 1>> >>],
    [clientLibPath |-> "/missing.so"] }

\* the configuration FirebirdCore is constructed with
UserConfig ==
  [ host |-> "db1", password |-> "masterkey", database |-> "a.fdb",
    pool |-> << <<"max", 5>>, <<"idleTimeout", 1000>> >> ]

\* fs.existsSync
ExistingFiles == {"/opt/firebird/libfbclient.so"}

Null == 0
NoErr == <<>>
NoRes == <<>>
NoFrame == <<>>

VARIABLES
  plugins,          \* PluginManager.plugins, in registration order
  config,           \* ConnectionManager.config
  store,            \* ConfigManager.config, the secondary store
  connection,       \* ConnectionManager.connection: a handle, or Null
  isConnectedFlag,  \* ConnectionManager.isConnectedFlag
  pools,            \* the driver: every pool built so far, by handle
  durable,          \* the database: statements durably applied
  calls,            \* the asynchronous calls in flight, by slot
  monitor,          \* dispatches the monitoring listeners started, not awaited
  started,          \* calls started so far
  limit,            \* the bounds of this behaviour: calls, overlap, faults
  emits             \* whether the driver emits its query events

vars ==
  << plugins, config, store, connection, isConnectedFlag, pools, durable,
     calls, monitor, started, limit, emits >>

IdleCall ==
  [ op |-> "none", pc |-> "idle", id |-> 0, arg |-> <<>>, conn |-> Null,
    k |-> 0, results |-> <<>>, applied |-> {}, err |-> NoErr, res |-> NoRes,
    trace |-> <<>>, d |-> NoFrame, faults |-> 0 ]

\* ConfigManager.constructor: the defaults, then the initial config's keys
ConfigManagerConfig(initialConfig) ==
  LET defaults == [ host |-> "localhost", port |-> DefaultPort,
                    username |-> "SYSDBA", password |-> "", database |-> "" ]
  IN [key \in DOMAIN defaults \cup DOMAIN initialConfig |->
        IF key \in DOMAIN initialConfig THEN initialConfig[key] ELSE defaults[key]]

\* the state after new FirebirdCore(UserConfig)
Constructed ==
  /\ plugins = <<>>
  /\ store = ConfigManagerConfig(UserConfig)
  /\ config = ConstructConfig(store)
  /\ connection = Null
  /\ isConnectedFlag = FALSE
  /\ pools = <<>>
  /\ durable = {}
  /\ calls = [c \in Slots |-> IdleCall]
  /\ monitor = <<>>
  /\ started = 0

(***************************************************************************)
(* ConnectionManager: the synchronous accessors.                           *)
(***************************************************************************)
\* a test of the handle in place of the flag
isConnectedByHandle == connection # Null

isConnected == isConnectedFlag

getConnection == IF isConnectedFlag THEN connection ELSE Null

(***************************************************************************)
(* Calls.  A slot is free when it holds no call; a new call takes the      *)
(* lowest free slot.  A call that has settled is handed to its caller      *)
(* before anything else runs.                                              *)
(***************************************************************************)
NoneSettled == \A c \in Slots : calls[c].pc # "done"

\* call c is suspended at the await named label and may resume
At(c, label) == NoneSettled /\ calls[c].pc = label

Free(c) == calls[c].pc = "idle"

\* the listeners' dispatches have all ended: a caller starts its next call
\* after that
Quiet == monitor = <<>>

CanStart(c) ==
  /\ NoneSettled
  /\ Quiet
  /\ started < limit.calls
  /\ c <= limit.overlap
  /\ Free(c)
  /\ \A b \in Slots : b < c => ~Free(b)

NewCall(op, arg) ==
  [IdleCall EXCEPT !.op = op, !.id = started + 1, !.arg = arg]

Log(call, ev) == [call EXCEPT !.trace = Append(@, ev)]

\* the call's promise resolves with res
Resolve(call, res) == [call EXCEPT !.pc = "done", !.res = res]

\* the call's promise rejects with e
Reject(call, e) == [call EXCEPT !.pc = "done", !.err = e]

\* one more failure may be injected into call c
CanFail(c) == calls[c].faults < limit.faults

Faulted(call) == [call EXCEPT !.faults = @ + 1]

\* the caller has the settled call's outcome: the slot is free again
Forget(c) ==
  /\ calls[c].pc = "done"
  /\ calls' = [calls EXCEPT ![c] = IdleCall]
  /\ UNCHANGED << plugins, config, store, connection, isConnectedFlag, pools,
                  durable, monitor, started, limit, emits >>

(***************************************************************************)
(* PluginManager.                                                          *)
(***************************************************************************)
\* the test each dispatch loop makes on a plugin: if (plugin.<phase>);
\* init is called without a test
Implements(o, phase) == phase = "init" \/ phase \in Capabilities(o)

\* the first plugin at or after position from that the loop calls, 0 if none
NextPlugin(phase, from) ==
  LET hits == {j \in from..Len(plugins) : Implements(plugins[j], phase)}
  IN IF hits = {} THEN 0 ELSE CHOOSE j \in hits : \A h \in hits : j <= h

\* a check that lets every plugin through
RegisterAny(o) == TRUE

\* PluginManager.register: typeof plugin.init === 'function'
RegisterOk(o) == "init" \in Capabilities(o)

InitMissingError == <<"Plugin deve implementar o metodo init">>

\* register(plugin): it throws and leaves the list as it is when the plugin
\* has no init, and pushes the plugin otherwise.  The call is synchronous:
\* it settles in the step that starts it.  Plugins are registered between
\* calls, each one once.
Register(o) ==
  /\ \A c \in Slots : Free(c)
  /\ Quiet
  /\ Len(plugins) < limit.observers
  /\ \A j \in 1..Len(plugins) : plugins[j] # o
  /\ plugins' = IF RegisterOk(o) THEN Append(plugins, o) ELSE plugins
  /\ LET call == [IdleCall EXCEPT !.op = "register", !.arg = o]
     IN calls' = [calls EXCEPT ![1] = IF RegisterOk(o)
                                        THEN Resolve(call, NoRes)
                                        ELSE Reject(call, InitMissingError)]
  /\ UNCHANGED << config, store, connection, isConnectedFlag, pools, durable,
                  monitor, started, limit, emits >>

\* a loop that calls the next plugin whether or not it has the callback
DispatchFromAny(call, phase, from, ret, onThrow) ==
  IF from > Len(plugins)
    THEN [Log(call, <<"end", phase>>) EXCEPT !.pc = ret, !.d = NoFrame]
    ELSE [Log(call, <<"call", phase, from, plugins[from]>>) EXCEPT
            !.pc = "hook",
            !.d = [phase |-> phase, i |-> from, ret |-> ret, onThrow |-> onThrow]]

\* the dispatch loop from position from: it calls the next implementing
\* plugin's callback and awaits it, or ends and lets the caller resume
DispatchFrom(call, phase, from, ret, onThrow) ==
  LET j == NextPlugin(phase, from)
  IN IF j = 0
       THEN [Log(call, <<"end", phase>>) EXCEPT !.pc = ret, !.d = NoFrame]
       ELSE [Log(call, <<"call", phase, j, plugins[j]>>) EXCEPT
               !.pc = "hook",
               !.d = [phase |-> phase, i |-> j, ret |-> ret, onThrow |-> onThrow]]

\* await pluginManager.<phase>(arg).  The caller resumes at ret when the loop
\* ends, at onThrow when a callback throws.
Dispatch(call, phase, arg, ret, onThrow) ==
  DispatchFrom(Log(call, <<"dispatch", phase, arg>>), phase, 1, ret, onThrow)

\* the awaited callback completes: the loop goes on
HookReturn(c) ==
  /\ At(c, "hook")
  /\ LET call == calls[c]
         d == call.d
     IN calls' = [calls EXCEPT ![c] =
          DispatchFrom(Log(call, <<"return", d.phase, d.i>>),
                       d.phase, d.i + 1, d.ret, d.onThrow)]
  /\ UNCHANGED << plugins, config, store, connection, isConnectedFlag, pools,
                  durable, monitor, started, limit, emits >>

\* a loop that catches what a callback throws and goes on
Swallowed(call) ==
  DispatchFrom(Log(call, <<"throw", call.d.phase, call.d.i>>),
               call.d.phase, call.d.i + 1, call.d.ret, call.d.onThrow)

\* the awaited callback throws: the loop does not catch it
Thrown(call) ==
  [Log(call, <<"throw", call.d.phase, call.d.i>>) EXCEPT
     !.pc = call.d.onThrow,
     !.err = <<"Observer", call.d.phase, call.d.i>>,
     !.d = NoFrame]

HookThrow(c) ==
  /\ At(c, "hook")
  /\ CanFail(c)
  /\ calls' = [calls EXCEPT ![c] = Thrown(Faulted(calls[c]))]
  /\ UNCHANGED << plugins, config, store, connection, isConnectedFlag, pools,
                  durable, monitor, started, limit, emits >>

\* a caller that does not catch: the observer's error is the call's failure
Uncaught(c) ==
  /\ At(c, "uncaught")
  /\ calls' = [calls EXCEPT ![c] = Reject(calls[c], calls[c].err)]
  /\ UNCHANGED << plugins, config, store, connection, isConnectedFlag, pools,
                  durable, monitor, started, limit, emits >>

\* a direct call of pluginManager.init(core) or pluginManager.destroy()
PluginCall(c, phase) ==
  /\ CanStart(c)
  /\ started' = started + 1
  /\ calls' = [calls EXCEPT ![c] =
       Dispatch(NewCall("dispatch", phase), phase, <<"core">>, "pm_done", "uncaught")]
  /\ UNCHANGED << plugins, config, store, connection, isConnectedFlag, pools,
                  durable, monitor, limit, emits >>

PluginCallDone(c) ==
  /\ At(c, "pm_done")
  /\ calls' = [calls EXCEPT ![c] = Resolve(calls[c], <<"ok">>)]
  /\ UNCHANGED << plugins, config, store, connection, isConnectedFlag, pools,
                  durable, monitor, started, limit, emits >>

(***************************************************************************)
(* The driver (knex), as far as the code relies on it.  A statement on a   *)
(* pool that has been destroyed fails; on an open pool it returns rows or  *)
(* raises.  The instance emits 'query' when a statement is issued and      *)
(* 'query-response' or 'query-error' when it ends.                         *)
(***************************************************************************)
PoolOpen(h) == h \in 1..Len(pools) /\ pools[h].state = "open"

\* the driver may raise on call c's handle: always on a destroyed pool, else
\* as an injected failure
DriverRaises(c) == ~PoolOpen(calls[c].conn) \/ CanFail(c)

\* the call's record once the driver has raised
Charged(call) == IF PoolOpen(call.conn) THEN Faulted(call) ELSE call

Rows(call, k) == <<"rows", call.id, k>>
DriverError(call, k) == <<"Driver", call.id, k>>

(***************************************************************************)
(* ConnectionManager.setupMonitoring: the listeners call the dispatcher    *)
(* and do not await it.  The dispatch runs up to its first await inside    *)
(* the listener; the rest runs on its own.                                 *)
(***************************************************************************)
\* connection.on('query' | 'query-response' | 'query-error'): the phase
ListenerPhase(event) ==
  CASE event = "query" -> "beforeQuery"
    [] event = "query-response" -> "afterQuery"
    [] event = "query-error" -> "onError"

\* the first callback the listener's dispatch calls, 0 if it calls none
ListenerFirst(event) ==
  IF emits THEN NextPlugin(ListenerPhase(event), 1) ELSE 0

\* the dispatches left running after the listener ran
Emitted(call, event, arg) ==
  LET j == ListenerFirst(event)
  IN IF j = 0 THEN monitor
     ELSE Append(monitor,
            [phase |-> ListenerPhase(event), arg |-> arg, i |-> j, id |-> call.id])

DropFrame(m) == [i \in 1..(Len(monitor) - 1) |->
                   IF i < m THEN monitor[i] ELSE monitor[i + 1]]

\* a callback the listener's dispatch awaits completes: the loop goes on
MonitorReturn(m) ==
  /\ NoneSettled
  /\ m \in 1..Len(monitor)
  /\ LET j == NextPlugin(monitor[m].phase, monitor[m].i + 1)
     IN monitor' = IF j = 0 THEN DropFrame(m) ELSE [monitor EXCEPT ![m].i = j]
  /\ UNCHANGED << plugins, config, store, connection, isConnectedFlag, pools,
                  durable, calls, started, limit, emits >>

\* a callback the listener's dispatch awaits throws: an unhandled rejection
MonitorThrow(m) ==
  /\ NoneSettled
  /\ m \in 1..Len(monitor)
  /\ monitor' = DropFrame(m)
  /\ UNCHANGED << plugins, config, store, connection, isConnectedFlag, pools,
                  durable, calls, started, limit, emits >>

(***************************************************************************)
(* QueryService.                                                           *)
(***************************************************************************)
NotConnectedError == <<"Conexao com o banco de dados nao esta ativa">>
\* `Consulta invalida: ${validation.error}`
InvalidQueryError(reason) == <<"Consulta invalida", reason>>
\* connection!.raw, connection!.transaction, connection!(tableName) on null
NullHandleError == <<"TypeError">>

\* bindings || []
BindingsOf(q) == IF "bindings" \in DOMAIN q THEN q.bindings ELSE <<>>

\* executeQuery called without the test of isConnected()
ExecuteQueryUnchecked(c, q) ==
  /\ CanStart(c)
  /\ started' = started + 1
  /\ calls' = [calls EXCEPT ![c] =
       Dispatch(NewCall("executeQuery", q), "beforeQuery", q, "eq_exec", "uncaught")]
  /\ UNCHANGED << plugins, config, store, connection, isConnectedFlag, pools,
                  durable, monitor, limit, emits >>

\* executeQuery, up to the await of the beforeQuery dispatch
ExecuteQuery(c, q) ==
  /\ CanStart(c)
  /\ started' = started + 1
  /\ calls' = [calls EXCEPT ![c] =
       IF ~isConnected
         THEN Reject(NewCall("executeQuery", q), NotConnectedError)
         ELSE Dispatch(NewCall("executeQuery", q), "beforeQuery", q,
                       "eq_exec", "uncaught")]
  /\ UNCHANGED << plugins, config, store, connection, isConnectedFlag, pools,
                  durable, monitor, limit, emits >>

\* the catch block of executeQuery and executeSelect: onError, then rethrow
Caught(call, error) ==
  Dispatch([call EXCEPT !.err = error], "onError", error, "rethrow", "uncaught")

\* executeQuery giving the driver the statement without validating it
ExecuteQueryRunUnvalidated(c) ==
  /\ At(c, "eq_exec")
  /\ getConnection # Null
  /\ LET call == calls[c]
         h == getConnection
     IN /\ calls' = [calls EXCEPT ![c] =
             [Log(call, <<"raw", h, call.arg.sql, BindingsOf(call.arg)>>)
                EXCEPT !.pc = "q_raw", !.conn = h]]
        /\ monitor' = Emitted(call, "query", call.arg)
  /\ UNCHANGED << plugins, config, store, connection, isConnectedFlag, pools,
                  durable, started, limit, emits >>

\* executeQuery giving the driver the text as the validator normalizes it
ExecuteQueryRunNormalized(c) ==
  /\ At(c, "eq_exec")
  /\ LET call == calls[c]
         h == getConnection
         validation == validateSql(call.arg.sql)
         checked == Log(call, <<"validate", call.arg.sql, validation.valid>>)
         issued == [Log(checked, <<"raw", h, toUpperCase(trim(call.arg.sql)),
                                   BindingsOf(call.arg)>>)
                      EXCEPT !.pc = "q_raw", !.conn = h]
     IN IF ~validation.valid
          THEN /\ calls' = [calls EXCEPT ![c] =
                    Caught(checked, InvalidQueryError(validation.error))]
               /\ monitor' = monitor
        ELSE IF h = Null
          THEN /\ calls' = [calls EXCEPT ![c] = Caught(checked, NullHandleError)]
               /\ monitor' = monitor
        ELSE /\ calls' = [calls EXCEPT ![c] = issued]
             /\ monitor' = Emitted(call, "query", call.arg)
  /\ UNCHANGED << plugins, config, store, connection, isConnectedFlag, pools,
                  durable, started, limit, emits >>

\* executeQuery after beforeQuery: getConnection, validateSql, connection.raw
ExecuteQueryRun(c) ==
  /\ At(c, "eq_exec")
  /\ LET call == calls[c]
         h == getConnection
         validation == validateSql(call.arg.sql)
         checked == Log(call, <<"validate", call.arg.sql, validation.valid>>)
         issued == [Log(checked, <<"raw", h, call.arg.sql, BindingsOf(call.arg)>>)
                      EXCEPT !.pc = "q_raw", !.conn = h]
     IN IF ~validation.valid
          THEN /\ calls' = [calls EXCEPT ![c] =
                    Caught(checked, InvalidQueryError(validation.error))]
               /\ monitor' = monitor
        ELSE IF h = Null
          THEN /\ calls' = [calls EXCEPT ![c] = Caught(checked, NullHandleError)]
               /\ monitor' = monitor
        ELSE /\ calls' = [calls EXCEPT ![c] = issued]
             /\ monitor' = Emitted(call, "query", call.arg)
  /\ UNCHANGED << plugins, config, store, connection, isConnectedFlag, pools,
                  durable, started, limit, emits >>

\* the statement of executeQuery or executeSelect returns: afterQuery
StatementOk(c) ==
  /\ At(c, "q_raw")
  /\ PoolOpen(calls[c].conn)
  /\ LET call == calls[c]
         result == Rows(call, 0)
         got == [Log(call, <<"rows", result>>) EXCEPT !.results = <<result>>]
     IN /\ calls' = [calls EXCEPT ![c] =
             Dispatch(got,
                      "afterQuery", result, "q_return", "q_catch")]
        /\ monitor' = Emitted(call, "query-response", result)
  /\ UNCHANGED << plugins, config, store, connection, isConnectedFlag, pools,
                  durable, started, limit, emits >>

\* the statement of executeQuery or executeSelect raises: the catch block
StatementFails(c) ==
  /\ At(c, "q_raw")
  /\ DriverRaises(c)
  /\ LET call == Charged(calls[c])
         error == DriverError(call, 0)
     IN /\ calls' = [calls EXCEPT ![c] =
             Caught(Log(call, <<"raised", error>>),
                    error)]
        /\ monitor' = Emitted(call, "query-error", error)
  /\ UNCHANGED << plugins, config, store, connection, isConnectedFlag, pools,
                  durable, started, limit, emits >>

\* an afterQuery observer threw inside the try block: the catch block
QueryCatch(c) ==
  /\ At(c, "q_catch")
  /\ calls' = [calls EXCEPT ![c] = Caught(calls[c], calls[c].err)]
  /\ UNCHANGED << plugins, config, store, connection, isConnectedFlag, pools,
                  durable, monitor, started, limit, emits >>

\* an updateConnection that goes on to merge and connect when its disconnect
\* has thrown
RethrowUnlessUpdating(c) ==
  /\ At(c, "rethrow")
  /\ calls' = [calls EXCEPT ![c] =
       IF calls[c].op = "updateConnection"
         THEN [calls[c] EXCEPT !.pc = "uc_merge", !.err = NoErr]
         ELSE Reject(calls[c], calls[c].err)]
  /\ UNCHANGED << plugins, config, store, connection, isConnectedFlag, pools,
                  durable, monitor, started, limit, emits >>

\* throw error, at the end of a catch block
Rethrow(c) ==
  /\ At(c, "rethrow")
  /\ calls' = [calls EXCEPT ![c] = Reject(calls[c], calls[c].err)]
  /\ UNCHANGED << plugins, config, store, connection, isConnectedFlag, pools,
                  durable, monitor, started, limit, emits >>

\* return result
QueryReturn(c) ==
  /\ At(c, "q_return")
  /\ calls' = [calls EXCEPT ![c] = Resolve(calls[c], calls[c].results[1])]
  /\ UNCHANGED << plugins, config, store, connection, isConnectedFlag, pools,
                  durable, monitor, started, limit, emits >>

(***************************************************************************)
(* QueryService.executeSelect: the query the builder is given.             *)
(***************************************************************************)
\* the truthiness test of if (options?.limit), if (options?.offset)
Truthy(obj, key) == key \in DOMAIN obj /\ obj[key] # 0

OptionsOf(req) == IF "options" \in DOMAIN req THEN req.options ELSE <<>>

\* for (const [key, value] of Object.entries(conditions)) where(key, value)
WhereClauses(req) ==
  IF "conditions" \in DOMAIN req
    THEN [i \in 1..Len(req.conditions) |->
            <<"where", req.conditions[i][1], req.conditions[i][2]>>]
    ELSE <<>>

\* orderBy(field, direction || 'asc')
OrderClause(options) ==
  IF "orderBy" \in DOMAIN options
    THEN << <<"orderBy", options.orderBy.field,
              IF "direction" \in DOMAIN options.orderBy
                THEN options.orderBy.direction ELSE "asc">> >>
    ELSE <<>>

\* the builder calls of executeSelect, in the order the code makes them
BuildSelect(req) ==
  LET options == OptionsOf(req)
  IN << <<"from", req.tableName>> >>
     \o WhereClauses(req)
     \o (IF Truthy(options, "limit") THEN << <<"limit", options.limit>> >> ELSE <<>>)
     \o (IF Truthy(options, "offset") THEN << <<"offset", options.offset>> >> ELSE <<>>)
     \o OrderClause(options)

\* executeSelect, up to the await of the beforeQuery dispatch: the handle is
\* read before the await
ExecuteSelect(c, req) ==
  /\ CanStart(c)
  /\ started' = started + 1
  /\ calls' = [calls EXCEPT ![c] =
       IF ~isConnected
         THEN Reject(NewCall("executeSelect", req), NotConnectedError)
         ELSE Dispatch([NewCall("executeSelect", req) EXCEPT !.conn = getConnection],
                       "beforeQuery", req, "es_exec", "uncaught")]
  /\ UNCHANGED << plugins, config, store, connection, isConnectedFlag, pools,
                  durable, monitor, limit, emits >>

\* executeSelect after beforeQuery: the builder, then select()
ExecuteSelectRun(c) ==
  /\ At(c, "es_exec")
  /\ LET call == calls[c]
         built == BuildSelect(call.arg)
         issued == [Log(call, <<"select", call.conn, built>>) EXCEPT !.pc = "q_raw"]
     IN IF call.conn = Null
          THEN /\ calls' = [calls EXCEPT ![c] = Caught(call, NullHandleError)]
               /\ monitor' = monitor
          ELSE /\ calls' = [calls EXCEPT ![c] = issued]
               /\ monitor' = Emitted(call, "query", built)
  /\ UNCHANGED << plugins, config, store, connection, isConnectedFlag, pools,
                  durable, started, limit, emits >>

(***************************************************************************)
(* QueryService.executeTransaction.  The driver opens a transaction, runs  *)
(* the callback, commits when the callback's promise resolves and rolls    *)
(* back when it rejects; what the statements did is kept in the call until *)
(* the commit.                                                             *)
(***************************************************************************)
\* a loop that goes to the next statement without its beforeQuery dispatch
TransactionLoopUndispatched(call) ==
  IF call.k = Len(call.arg)
    THEN [call EXCEPT !.pc = "et_commit"]
    ELSE [call EXCEPT !.pc = "et_stmt"]

\* for (const query of queries): the next statement's beforeQuery, or the end
TransactionLoop(call) ==
  IF call.k = Len(call.arg)
    THEN [call EXCEPT !.pc = "et_commit"]
    ELSE Dispatch(call, "beforeQuery", call.arg[call.k + 1], "et_stmt", "et_rollback")

\* executeTransaction up to connection.transaction(...)
ExecuteTransaction(c, queries) ==
  /\ CanStart(c)
  /\ started' = started + 1
  /\ LET call == NewCall("executeTransaction", queries)
         h == getConnection
     IN calls' = [calls EXCEPT ![c] =
          IF ~isConnected THEN Reject(call, NotConnectedError)
          ELSE IF h = Null THEN Reject(call, NullHandleError)
          ELSE [Log(call, <<"begin", h>>) EXCEPT !.pc = "et_begin", !.conn = h]]
  /\ UNCHANGED << plugins, config, store, connection, isConnectedFlag, pools,
                  durable, monitor, limit, emits >>

\* the transaction is open: the callback starts
TransactionBegun(c) ==
  /\ At(c, "et_begin")
  /\ PoolOpen(calls[c].conn)
  /\ calls' = [calls EXCEPT ![c] = TransactionLoop(calls[c])]
  /\ UNCHANGED << plugins, config, store, connection, isConnectedFlag, pools,
                  durable, monitor, started, limit, emits >>

\* the transaction cannot be opened: the callback never runs
TransactionBeginFails(c) ==
  /\ At(c, "et_begin")
  /\ DriverRaises(c)
  /\ LET call == Charged(calls[c])
     IN calls' = [calls EXCEPT ![c] = Reject(call, <<"Begin", call.id>>)]
  /\ UNCHANGED << plugins, config, store, connection, isConnectedFlag, pools,
                  durable, monitor, started, limit, emits >>

\* after beforeQuery: validateSqlForTransaction, then trx.raw
TransactionStatement(c) ==
  /\ At(c, "et_stmt")
  /\ LET call == calls[c]
         q == call.arg[call.k + 1]
         validation == validateSqlForTransaction(q.sql)
         checked == Log(call, <<"validate", q.sql, validation.valid>>)
         issued == [Log(checked, <<"trx.raw", call.k + 1, q.sql, BindingsOf(q)>>)
                      EXCEPT !.pc = "et_raw"]
     IN IF ~validation.valid
          THEN /\ calls' = [calls EXCEPT ![c] =
                    [checked EXCEPT !.pc = "et_rollback",
                                    !.err = InvalidQueryError(validation.error)]]
               /\ monitor' = monitor
          ELSE /\ calls' = [calls EXCEPT ![c] = issued]
               /\ monitor' = Emitted(call, "query", q)
  /\ UNCHANGED << plugins, config, store, connection, isConnectedFlag, pools,
                  durable, started, limit, emits >>

\* trx.raw returns: results.push(result), afterQuery
TransactionStatementOk(c) ==
  /\ At(c, "et_raw")
  /\ PoolOpen(calls[c].conn)
  /\ LET call == calls[c]
         k == call.k + 1
         result == Rows(call, k)
         got == [Log(call, <<"rows", result>>) EXCEPT
                   !.k = k, !.results = Append(@, result),
                   !.applied = @ \cup {<<call.id, k>>}]
     IN /\ calls' = [calls EXCEPT ![c] =
             Dispatch(got,
                      "afterQuery", result, "et_loop", "et_rollback")]
        /\ monitor' = Emitted(call, "query-response", result)
  /\ UNCHANGED << plugins, config, store, connection, isConnectedFlag, pools,
                  durable, started, limit, emits >>

\* trx.raw raises: the callback's promise rejects
TransactionStatementFails(c) ==
  /\ At(c, "et_raw")
  /\ DriverRaises(c)
  /\ LET call == Charged(calls[c])
         error == DriverError(call, call.k + 1)
         raised == [Log(call, <<"raised", error>>) EXCEPT
                      !.pc = "et_rollback", !.err = error]
     IN /\ calls' = [calls EXCEPT ![c] = raised]
        /\ monitor' = Emitted(call, "query-error", error)
  /\ UNCHANGED << plugins, config, store, connection, isConnectedFlag, pools,
                  durable, started, limit, emits >>

\* after afterQuery: the loop goes on
TransactionNext(c) ==
  /\ At(c, "et_loop")
  /\ calls' = [calls EXCEPT ![c] = TransactionLoop(calls[c])]
  /\ UNCHANGED << plugins, config, store, connection, isConnectedFlag, pools,
                  durable, monitor, started, limit, emits >>

\* the callback returned results: the driver commits, the call resolves
TransactionCommit(c) ==
  /\ At(c, "et_commit")
  /\ PoolOpen(calls[c].conn)
  /\ durable' = durable \cup calls[c].applied
  /\ calls' = [calls EXCEPT ![c] =
       Resolve(Log(calls[c], <<"commit">>), calls[c].results)]
  /\ UNCHANGED << plugins, config, store, connection, isConnectedFlag, pools,
                  monitor, started, limit, emits >>

\* the commit raises: nothing is applied, the call rejects
TransactionCommitFails(c) ==
  /\ At(c, "et_commit")
  /\ DriverRaises(c)
  /\ LET call == Charged(calls[c])
     IN calls' = [calls EXCEPT ![c] = Reject(call, <<"Commit", call.id>>)]
  /\ UNCHANGED << plugins, config, store, connection, isConnectedFlag, pools,
                  durable, monitor, started, limit, emits >>

\* a driver that keeps what the statements did when the callback rejects
TransactionRollbackKeeps(c) ==
  /\ At(c, "et_rollback")
  /\ durable' = durable \cup calls[c].applied
  /\ calls' = [calls EXCEPT ![c] =
       Reject(Log(calls[c], <<"rollback">>), calls[c].err)]
  /\ UNCHANGED << plugins, config, store, connection, isConnectedFlag, pools,
                  monitor, started, limit, emits >>

\* the callback's promise rejected: the driver rolls back, the call rejects
\* with the callback's error
TransactionRollback(c) ==
  /\ At(c, "et_rollback")
  /\ calls' = [calls EXCEPT ![c] =
       Reject(Log(calls[c], <<"rollback">>), calls[c].err)]
  /\ UNCHANGED << plugins, config, store, connection, isConnectedFlag, pools,
                  durable, monitor, started, limit, emits >>

(***************************************************************************)
(* ConnectionManager: connect, disconnect, updateConnection.               *)
(***************************************************************************)
ClientLibError == <<"Client library file not found">>
PoolBuildError == <<"knex">>
\* `Falha na conexao: ${error.message}`
ConnectError(e) == <<"Falha na conexao", e>>
ConnectSuccess == <<"Conexao estabelecida com sucesso">>

\* if (this.config.clientLibPath && !fs.existsSync(...)) throw
ClientLibMissing ==
  /\ config.clientLibPath \notin {Undefined, ""}
  /\ config.clientLibPath \notin ExistingFiles

\* connect, up to the await of the beforeConnect dispatch
BeginConnect(call, cfg) ==
  Dispatch(call, "beforeConnect", cfg, "cn_build", "cn_catch")

\* the catch block of connect, after it has cleared the flag and the handle
ConnectCaught(call, error) ==
  Dispatch([call EXCEPT !.err = error], "onError", error, "cn_throw", "uncaught")

Connect(c) ==
  /\ CanStart(c)
  /\ started' = started + 1
  /\ calls' = [calls EXCEPT ![c] = BeginConnect(NewCall("connect", <<>>), config)]
  /\ UNCHANGED << plugins, config, store, connection, isConnectedFlag, pools,
                  durable, monitor, limit, emits >>

\* connect after beforeConnect: the client-library check fails
ConnectNoClientLib(c) ==
  /\ At(c, "cn_build")
  /\ ClientLibMissing
  /\ isConnectedFlag' = FALSE
  /\ connection' = Null
  /\ calls' = [calls EXCEPT ![c] = ConnectCaught(calls[c], ClientLibError)]
  /\ UNCHANGED << plugins, config, store, pools, durable, monitor, started,
                  limit, emits >>

\* connect after beforeConnect: knex(knexConfig) throws
ConnectBuildFails(c) ==
  /\ At(c, "cn_build")
  /\ ~ClientLibMissing
  /\ CanFail(c)
  /\ isConnectedFlag' = FALSE
  /\ connection' = Null
  /\ calls' = [calls EXCEPT ![c] = ConnectCaught(Faulted(calls[c]), PoolBuildError)]
  /\ UNCHANGED << plugins, config, store, pools, durable, monitor, started,
                  limit, emits >>

\* connect after beforeConnect: the pool is built and held, the listeners are
\* installed, the liveness probe is issued on the held handle
ConnectBuild(c) ==
  /\ At(c, "cn_build")
  /\ ~ClientLibMissing
  /\ LET h == Len(pools) + 1
         call == calls[c]
         built == Log(call, <<"knex", h, KnexConfig(config)>>)
         issued == [Log(built, <<"probe", h>>) EXCEPT !.pc = "cn_probe", !.conn = h]
     IN /\ pools' = Append(pools, [state |-> "open", cfg |-> KnexConfig(config)])
        /\ connection' = h
        /\ calls' = [calls EXCEPT ![c] = issued]
        /\ monitor' = Emitted(call, "query", <<"probe", h>>)
  /\ UNCHANGED << plugins, config, store, isConnectedFlag, durable, started,
                  limit, emits >>

\* connect that dispatches afterConnect without marking the manager connected
ConnectProbeOkUnmarked(c) ==
  /\ At(c, "cn_probe")
  /\ PoolOpen(calls[c].conn)
  /\ calls' = [calls EXCEPT ![c] =
       Dispatch(Log(calls[c], <<"probed", calls[c].conn>>),
                "afterConnect", connection, "cn_return", "cn_catch")]
  /\ monitor' = Emitted(calls[c], "query-response", Rows(calls[c], 0))
  /\ UNCHANGED << plugins, config, store, connection, isConnectedFlag, pools,
                  durable, started, limit, emits >>

\* the probe returns: the flag is set, afterConnect gets this.connection
ConnectProbeOk(c) ==
  /\ At(c, "cn_probe")
  /\ PoolOpen(calls[c].conn)
  /\ isConnectedFlag' = TRUE
  /\ LET call == calls[c]
         result == Rows(call, 0)
     IN /\ calls' = [calls EXCEPT ![c] =
             Dispatch(Log(call, <<"probed", call.conn>>),
                      "afterConnect", connection, "cn_return", "cn_catch")]
        /\ monitor' = Emitted(call, "query-response", result)
  /\ UNCHANGED << plugins, config, store, connection, pools, durable, started,
                  limit, emits >>

\* connect whose catch block keeps the handle it built
ConnectProbeFailsKeeps(c) ==
  /\ At(c, "cn_probe")
  /\ DriverRaises(c)
  /\ isConnectedFlag' = FALSE
  /\ LET call == Charged(calls[c])
         error == DriverError(call, 0)
     IN /\ calls' = [calls EXCEPT ![c] =
             ConnectCaught(Log(call, <<"raised", error>>), error)]
        /\ monitor' = Emitted(call, "query-error", error)
  /\ UNCHANGED << plugins, config, store, connection, pools, durable, started,
                  limit, emits >>

\* the probe raises: the catch block
ConnectProbeFails(c) ==
  /\ At(c, "cn_probe")
  /\ DriverRaises(c)
  /\ isConnectedFlag' = FALSE
  /\ connection' = Null
  /\ LET call == Charged(calls[c])
         error == DriverError(call, 0)
     IN /\ calls' = [calls EXCEPT ![c] =
             ConnectCaught(Log(call, <<"raised", error>>), error)]
        /\ monitor' = Emitted(call, "query-error", error)
  /\ UNCHANGED << plugins, config, store, pools, durable, started, limit, emits >>

\* a beforeConnect or afterConnect observer threw: the catch block
ConnectCatch(c) ==
  /\ At(c, "cn_catch")
  /\ isConnectedFlag' = FALSE
  /\ connection' = Null
  /\ calls' = [calls EXCEPT ![c] = ConnectCaught(calls[c], calls[c].err)]
  /\ UNCHANGED << plugins, config, store, pools, durable, monitor, started,
                  limit, emits >>

\* the end of the catch block: throw new Error(`Falha na conexao: ...`)
ConnectThrow(c) ==
  /\ At(c, "cn_throw")
  /\ calls' = [calls EXCEPT ![c] = Reject(calls[c], ConnectError(calls[c].err))]
  /\ UNCHANGED << plugins, config, store, connection, isConnectedFlag, pools,
                  durable, monitor, started, limit, emits >>

ConnectReturn(c) ==
  /\ At(c, "cn_return")
  /\ calls' = [calls EXCEPT ![c] = Resolve(calls[c], ConnectSuccess)]
  /\ UNCHANGED << plugins, config, store, connection, isConnectedFlag, pools,
                  durable, monitor, started, limit, emits >>

\* disconnect, up to the await of the beforeDisconnect dispatch
BeginDisconnect(call) ==
  Dispatch(call, "beforeDisconnect", <<>>, "dc_close", "dc_catch")

\* disconnect ends without error: its caller, if any, resumes
EndDisconnect(call) ==
  IF call.op = "updateConnection"
    THEN [call EXCEPT !.pc = "uc_merge"]
    ELSE Resolve(call, <<"ok">>)

Disconnect(c) ==
  /\ CanStart(c)
  /\ started' = started + 1
  /\ calls' = [calls EXCEPT ![c] = BeginDisconnect(NewCall("disconnect", <<>>))]
  /\ UNCHANGED << plugins, config, store, connection, isConnectedFlag, pools,
                  durable, monitor, limit, emits >>

\* disconnect after beforeDisconnect: if (this.connection) destroy is issued
DisconnectClose(c) ==
  /\ At(c, "dc_close")
  /\ calls' = [calls EXCEPT ![c] =
       IF connection # Null
         THEN [Log(calls[c], <<"destroy", connection>>) EXCEPT
                 !.pc = "dc_destroy", !.conn = connection]
         ELSE EndDisconnect(calls[c])]
  /\ UNCHANGED << plugins, config, store, connection, isConnectedFlag, pools,
                  durable, monitor, started, limit, emits >>

\* destroy resolves and the fields are left as they were
DisconnectDestroyedKeeps(c) ==
  /\ At(c, "dc_destroy")
  /\ pools' = [pools EXCEPT ![calls[c].conn].state = "destroyed"]
  /\ calls' = [calls EXCEPT ![c] =
       EndDisconnect(Log(calls[c], <<"destroyed", calls[c].conn>>))]
  /\ UNCHANGED << plugins, config, store, connection, isConnectedFlag, durable,
                  monitor, started, limit, emits >>

\* destroy resolves: the handle and the flag are cleared
DisconnectDestroyed(c) ==
  /\ At(c, "dc_destroy")
  /\ pools' = [pools EXCEPT ![calls[c].conn].state = "destroyed"]
  /\ connection' = Null
  /\ isConnectedFlag' = FALSE
  /\ calls' = [calls EXCEPT ![c] =
       EndDisconnect(Log(calls[c], <<"destroyed", calls[c].conn>>))]
  /\ UNCHANGED << plugins, config, store, durable, monitor, started, limit, emits >>

\* destroy rejects and the fields are cleared all the same
DisconnectDestroyFailsClears(c) ==
  /\ At(c, "dc_destroy")
  /\ CanFail(c)
  /\ connection' = Null
  /\ isConnectedFlag' = FALSE
  /\ LET error == <<"Destroy", calls[c].id>>
     IN calls' = [calls EXCEPT ![c] =
          Dispatch([Faulted(calls[c]) EXCEPT !.err = error], "onError", error,
                   "rethrow", "uncaught")]
  /\ UNCHANGED << plugins, config, store, pools, durable, monitor, started,
                  limit, emits >>

\* destroy rejects: the catch block
DisconnectDestroyFails(c) ==
  /\ At(c, "dc_destroy")
  /\ CanFail(c)
  /\ LET error == <<"Destroy", calls[c].id>>
     IN calls' = [calls EXCEPT ![c] =
          Dispatch([Faulted(calls[c]) EXCEPT !.err = error], "onError", error,
                   "rethrow", "uncaught")]
  /\ UNCHANGED << plugins, config, store, connection, isConnectedFlag, pools,
                  durable, monitor, started, limit, emits >>

\* a beforeDisconnect observer threw: the catch block
DisconnectCatch(c) ==
  /\ At(c, "dc_catch")
  /\ calls' = [calls EXCEPT ![c] =
       Dispatch(calls[c], "onError", calls[c].err, "rethrow", "uncaught")]
  /\ UNCHANGED << plugins, config, store, connection, isConnectedFlag, pools,
                  durable, monitor, started, limit, emits >>

\* updateConnection: disconnect first when connected, else merge and connect
UpdateConnection(c, partial) ==
  /\ CanStart(c)
  /\ started' = started + 1
  /\ IF isConnectedFlag
       THEN /\ calls' = [calls EXCEPT ![c] =
                 BeginDisconnect(NewCall("updateConnection", partial))]
            /\ UNCHANGED << config, store >>
       ELSE /\ config' = MergeConfig(config, partial)
            /\ store' = StoreAfterUpdate(store, partial)
            /\ calls' = [calls EXCEPT ![c] =
                 BeginConnect(NewCall("updateConnection", partial), config')]
  /\ UNCHANGED << plugins, connection, isConnectedFlag, pools, durable, monitor,
                  limit, emits >>

\* updateConnection after its disconnect: merge, store, connect
UpdateMerge(c) ==
  /\ At(c, "uc_merge")
  /\ config' = MergeConfig(config, calls[c].arg)
  /\ store' = StoreAfterUpdate(store, calls[c].arg)
  /\ calls' = [calls EXCEPT ![c] = BeginConnect(calls[c], config')]
  /\ UNCHANGED << plugins, connection, isConnectedFlag, pools, durable, monitor,
                  started, limit, emits >>

(***************************************************************************)
(* The program: its operations may be called at any time, by any caller.   *)
(***************************************************************************)
\* the plugin manager, called directly
Registering ==
  \/ \E o \in Observers : Register(o)
  \/ \E c \in Slots : \E phase \in {"init", "destroy"} : PluginCall(c, phase)
  \/ \E c \in Slots : PluginCallDone(c)

\* the steps every call takes: awaited callbacks, settling
Dispatching ==
  \/ \E c \in Slots : HookReturn(c)
  \/ \E c \in Slots : HookThrow(c)
  \/ \E c \in Slots : Uncaught(c)
  \/ \E c \in Slots : Rethrow(c)
  \/ \E c \in Slots : Forget(c)

Monitoring ==
  \/ \E m \in 1..Len(monitor) : MonitorReturn(m)
  \/ \E m \in 1..Len(monitor) : MonitorThrow(m)

\* the steps of executeQuery, executeSelect and executeTransaction after
\* their first
QuerySteps ==
  \/ \E c \in Slots : ExecuteQueryRun(c)
  \/ \E c \in Slots : ExecuteSelectRun(c)
  \/ \E c \in Slots : StatementOk(c)
  \/ \E c \in Slots : StatementFails(c)
  \/ \E c \in Slots : QueryCatch(c)
  \/ \E c \in Slots : QueryReturn(c)
  \/ \E c \in Slots : TransactionBegun(c)
  \/ \E c \in Slots : TransactionBeginFails(c)
  \/ \E c \in Slots : TransactionStatement(c)
  \/ \E c \in Slots : TransactionStatementOk(c)
  \/ \E c \in Slots : TransactionStatementFails(c)
  \/ \E c \in Slots : TransactionNext(c)
  \/ \E c \in Slots : TransactionCommit(c)
  \/ \E c \in Slots : TransactionCommitFails(c)
  \/ \E c \in Slots : TransactionRollback(c)

Querying ==
  \/ \E c \in Slots : \E q \in QueryRequests : ExecuteQuery(c, q)
  \/ \E c \in Slots : \E req \in SelectRequests : ExecuteSelect(c, req)
  \/ \E c \in Slots : \E qs \in TransactionRequests : ExecuteTransaction(c, qs)
  \/ QuerySteps

\* the steps of connect, disconnect and updateConnection after their first
LifecycleSteps ==
  \/ \E c \in Slots : ConnectNoClientLib(c)
  \/ \E c \in Slots : ConnectBuildFails(c)
  \/ \E c \in Slots : ConnectBuild(c)
  \/ \E c \in Slots : ConnectProbeOk(c)
  \/ \E c \in Slots : ConnectProbeFails(c)
  \/ \E c \in Slots : ConnectCatch(c)
  \/ \E c \in Slots : ConnectThrow(c)
  \/ \E c \in Slots : ConnectReturn(c)
  \/ \E c \in Slots : DisconnectClose(c)
  \/ \E c \in Slots : DisconnectDestroyed(c)
  \/ \E c \in Slots : DisconnectDestroyFails(c)
  \/ \E c \in Slots : DisconnectCatch(c)
  \/ \E c \in Slots : UpdateMerge(c)

Lifecycle ==
  \/ \E c \in Slots : Connect(c)
  \/ \E c \in Slots : Disconnect(c)
  \/ \E c \in Slots : \E partial \in PartialConfigs : UpdateConnection(c, partial)
  \/ LifecycleSteps

Next == Registering \/ Dispatching \/ Monitoring \/ Querying \/ Lifecycle

\* the program with its driver's events, each call ending before the next
\* starts
Init ==
  /\ Constructed
  /\ limit = [calls |-> MaxCalls, overlap |-> 1, faults |-> MaxFaults,
             observers |-> MaxObservers]
  /\ emits = TRUE

Spec == Init /\ [][Next]_vars

\* connect, disconnect and updateConnection called while another of them is
\* in flight; the driver's events are left out
RaceInit ==
  /\ Constructed
  /\ limit = [calls |-> MaxRaceCalls, overlap |-> 2, faults |-> MaxRaceFaults,
             observers |-> MaxRaceObservers]
  /\ emits = FALSE

RaceNext == (\E o \in Observers : Register(o)) \/ Dispatching \/ Lifecycle

RaceSpec == RaceInit /\ [][RaceNext]_vars

(***************************************************************************)
(* Queries called while a connect, disconnect or updateConnection is in    *)
(* flight: one caller reconfigures the manager, another queries it.        *)
(***************************************************************************)
LifecycleOps == {"connect", "disconnect", "updateConnection"}

\* no connect, disconnect or updateConnection is in flight
Alone == \A c \in Slots : calls[c].op \notin LifecycleOps

ConnectAlone(c) == Alone /\ Connect(c)

DisconnectAlone(c) == Alone /\ Disconnect(c)

UpdateConnectionAlone(c, partial) == Alone /\ UpdateConnection(c, partial)

\* a query called while one of them is in flight
ExecuteQueryDuring(c, q) == ~Alone /\ ExecuteQuery(c, q)

ExecuteSelectDuring(c, req) == ~Alone /\ ExecuteSelect(c, req)

ExecuteTransactionDuring(c, qs) == ~Alone /\ ExecuteTransaction(c, qs)

\* the observers registered while queries overlap a reconfiguration
WindowObservers == {"A", "N"}

\* the state after new FirebirdCore(UserConfig) and a connect() that succeeded
Connected ==
  /\ plugins = <<>>
  /\ store = ConfigManagerConfig(UserConfig)
  /\ config = ConstructConfig(store)
  /\ pools = << [state |-> "open", cfg |-> KnexConfig(config)] >>
  /\ connection = 1
  /\ isConnectedFlag = TRUE
  /\ durable = {}
  /\ calls = [c \in Slots |-> IdleCall]
  /\ monitor = <<>>
  /\ started = 1

WindowInit ==
  /\ Connected
  /\ limit = [calls |-> MaxWindowCalls, overlap |-> 2, faults |-> MaxWindowFaults,
             observers |-> MaxWindowObservers]
  /\ emits = FALSE

WindowNext ==
  \/ \E o \in WindowObservers : Register(o)
  \/ Dispatching
  \/ QuerySteps
  \/ \E c \in Slots : \E q \in QueryRequests : ExecuteQueryDuring(c, q)
  \/ \E c \in Slots : \E req \in SelectRequests : ExecuteSelectDuring(c, req)
  \/ \E c \in Slots : \E qs \in TransactionRequests : ExecuteTransactionDuring(c, qs)
  \/ LifecycleSteps
  \/ \E c \in Slots : ConnectAlone(c)
  \/ \E c \in Slots : DisconnectAlone(c)
  \/ \E c \in Slots : \E partial \in PartialConfigs : UpdateConnectionAlone(c, partial)

WindowSpec == WindowInit /\ [][WindowNext]_vars

(***************************************************************************)
(* The validators applied to SQL texts.  validateSql is public; the write  *)
(* path's validator is the one executeTransaction applies to each          *)
(* statement.                                                              *)
(***************************************************************************)
\* validations made
MaxValidations == 1

\* what a text starts with
SqlHeads ==
  { <<>>,
    <<"a"," ">>,
    <<"d","r","o","p"," ">>,
    <<"a","	">> }

\* keywords in several spellings, tautologies, injection markers
SqlCores ==
  { <<"D","R","O","P">>,
    <<"d","r","o","p">>,
    <<"d","R","o","P">>,
    <<"T","R","U","N","C","A","T","E">>,
    <<"t","r","u","n","c","a","t","e">>,
    <<"A","l","t","e","r">>,
    <<"C","R","E","A","T","E">>,
    <<"c","r","e","a","t","e">>,
    <<"D","E","L","E","T","E">>,
    <<"d","e","l","e","t","e">>,
    <<"U","p","d","a","t","e">>,
    <<"I","N","S","E","R","T">>,
    <<"i","n","s","e","r","t">>,
    <<"i","d">>,
    <<"o","r"," ","1","=","1">>,
    <<"O","R"," ","1","=","1">>,
    <<"A","n","d"," ","1","=","1">>,
    <<"o","r"," "," ","1","=","1">>,
    <<"o","r"," ","1"," ","=","1">>,
    <<"o","r"," ","1","="," ","1">>,
    <<"A","N","D"," ","1"," ","="," ","1">>,
    <<"o","r","1","=","1">>,
    <<"o","r"," ","1","=","2">>,
    <<"'"," ","o","r"," ","'","'","=","'">>,
    <<"-","-">>,
    <<"s","p","_">>,
    <<"e","x","e","c"," ","(">> }

\* what a text ends with
SqlTails ==
  { <<>>,
    <<" ","t">>,
    <<"x">>,
    <<";">> }

SqlTexts == {h \o w \o t : h \in SqlHeads, w \in SqlCores, t \in SqlTails}

\* validateSql(sql) called: it is synchronous and settles at once
ValidateSql(c, sql) ==
  /\ CanStart(c)
  /\ started' = started + 1
  /\ calls' = [calls EXCEPT ![c] =
       Resolve(NewCall("validateSql", sql), validateSql(sql))]
  /\ UNCHANGED << plugins, config, store, connection, isConnectedFlag, pools,
                  durable, monitor, limit, emits >>

\* validateSqlForTransaction(sql) called
ValidateSqlForTransaction(c, sql) ==
  /\ CanStart(c)
  /\ started' = started + 1
  /\ calls' = [calls EXCEPT ![c] =
       Resolve(NewCall("validateSqlForTransaction", sql),
               validateSqlForTransaction(sql))]
  /\ UNCHANGED << plugins, config, store, connection, isConnectedFlag, pools,
                  durable, monitor, limit, emits >>

ValidatorInit ==
  /\ Constructed
  /\ limit = [calls |-> MaxValidations, overlap |-> 1, faults |-> 0,
             observers |-> 0]
  /\ emits = FALSE

ValidatorNext ==
  \/ \E c \in Slots : \E sql \in SqlTexts : ValidateSql(c, sql)
  \/ \E c \in Slots : \E sql \in SqlTexts : ValidateSqlForTransaction(c, sql)
  \/ \E c \in Slots : Forget(c)

ValidatorSpec == ValidatorInit /\ [][ValidatorNext]_vars

(***************************************************************************)
(* The program over many configurations and select requests: no observer   *)
(* is registered and the driver does not fail.                             *)
(***************************************************************************)
\* calls made
MaxInputCalls == 2

\* the configurations FirebirdCore is constructed with
UserConfigs ==
  { UserConfig,
    [ password |-> "masterkey", database |-> "a.fdb" ],
    [ host |-> "db1", password |-> "masterkey" ],
    [ host |-> "db1", password |-> "masterkey", database |-> "a.fdb",
      pool |-> << <<"acquireTimeout", 5000>> >> ],
    [ host |-> "db1", password |-> "masterkey", database |-> "a.fdb",
      acquireTimeout |-> 100,
      pool |-> << <<"acquireTimeoutMillis", 5000>> >> ],
    [ host |-> "db1", password |-> "masterkey", database |-> "a.fdb",
      pool |-> << <<"createTimeout", 7>>, <<"createTimeoutMillis", 9>> >> ],
    [ host |-> "db1", password |-> "masterkey", database |-> "a.fdb",
      pool |-> << <<"createTimeoutMillis", 9>>, <<"createTimeout", 7>> >> ],
    [ host |-> "db1", password |-> "masterkey", database |-> "a.fdb",
      pool |-> << <<"createTimeout", 1>>, <<"destroyTimeout", 2>>,
                  <<"idleTimeout", 3>>, <<"reapInterval", 4>>,
                  <<"createRetryInterval", 5>>, <<"foo", 1>> >> ],
    [ host |-> "db1", password |-> "masterkey", database |-> "a.fdb",
      pool |-> << <<"min", 20>> >> ],
    [ host |-> "db1", password |-> "masterkey", database |-> "a.fdb",
      pool |-> << <<"idleTimeout", -1>> >> ] }

\* the arguments of updateConnection
PartialInputs ==
  { [ host |-> "db2", pool |-> << <<"min", 1>> >> ],
    [ pool |-> << <<"max", 1>> >> ],
    [ host |-> "" ],
    [ port |-> 3051, username |-> "u2" ],
    [ pool |-> << <<"idleTimeoutMillis", 50>>, <<"foo", 2>> >> ],
    [ acquireTimeout |-> 200 ],
    [ database |-> "b.fdb", password |-> "p2" ] }

SelectConditions == { <<>>, << <<"a", 1>> >>, << <<"a", 1>>, <<"b", 2>> >> }

SelectOptions ==
  { [ limit |-> 10 ], [ limit |-> 0 ], [ offset |-> 5 ], [ offset |-> 0 ],
    [ orderBy |-> [field |-> "x"] ],
    [ orderBy |-> [field |-> "x", direction |-> "asc"] ],
    [ limit |-> 10, offset |-> 5,
      orderBy |-> [field |-> "x", direction |-> "desc"] ] }

\* the arguments of executeSelect
SelectInputs ==
  {[tableName |-> "t"]}
  \cup {[tableName |-> "t", conditions |-> w] : w \in SelectConditions}
  \cup {[tableName |-> "t", conditions |-> w, options |-> o] :
          w \in SelectConditions, o \in SelectOptions}

\* the state after new FirebirdCore(u), for each configuration u
InputInit ==
  /\ \E u \in UserConfigs :
       /\ store = ConfigManagerConfig(u)
       /\ config = ConstructConfig(store)
  /\ plugins = <<>>
  /\ connection = Null
  /\ isConnectedFlag = FALSE
  /\ pools = <<>>
  /\ durable = {}
  /\ calls = [c \in Slots |-> IdleCall]
  /\ monitor = <<>>
  /\ started = 0
  /\ limit = [calls |-> MaxInputCalls, overlap |-> 1, faults |-> 0, observers |-> 0]
  /\ emits = FALSE

InputNext ==
  \/ \E c \in Slots : Connect(c)
  \/ \E c \in Slots : ConnectBuild(c)
  \/ \E c \in Slots : ConnectProbeOk(c)
  \/ \E c \in Slots : ConnectReturn(c)
  \/ \E c \in Slots : \E partial \in PartialInputs : UpdateConnection(c, partial)
  \/ \E c \in Slots : DisconnectClose(c)
  \/ \E c \in Slots : DisconnectDestroyed(c)
  \/ \E c \in Slots : UpdateMerge(c)
  \/ \E c \in Slots : \E req \in SelectInputs : ExecuteSelect(c, req)
  \/ \E c \in Slots : ExecuteSelectRun(c)
  \/ \E c \in Slots : StatementOk(c)
  \/ \E c \in Slots : QueryReturn(c)
  \/ \E c \in Slots : Forget(c)

InputSpec == InputInit /\ [][InputNext]_vars
(***************************************************************************)
(* ConnectionManager.validateConnection, getPoolInfo; FirebirdCore.setConfig *)
(***************************************************************************)
\* calls started in one behaviour of the facade's other operations
MaxProbeCalls == 3
\* failures injected into one such call
MaxProbeFaults == 1

\* the arguments of validateConnection: a configuration, or none
ValidateRequests ==
  { [ given |-> FALSE ],
    [ given |-> TRUE,
      config |-> [ host |-> "db9", port |-> 3050, username |-> "SYSDBA",
                   password |-> "x", database |-> "z.fdb" ] ] }

\* the arguments of setConfig
ConfigSettings == { <<"host", "db3">>, <<"database", "c.fdb">> }

\* the configuration the throwaway instance is built with
TempKnexConfig(testConfig) ==
  [ host |-> Field(testConfig, "host"), port |-> Field(testConfig, "port"),
    user |-> Field(testConfig, "username"),
    password |-> Field(testConfig, "password"),
    database |-> Field(testConfig, "database") ]

ConnectionValid == [ valid |-> TRUE, message |-> "Conexao valida" ]
ConnectionInvalid(error) == [ valid |-> FALSE, error |-> error ]

\* validateConnection: knex(...) throws inside the try block
ValidateConnectionBuildFails(c, req) ==
  /\ CanStart(c)
  /\ limit.faults > 0
  /\ started' = started + 1
  /\ calls' = [calls EXCEPT ![c] =
       Resolve(Faulted(NewCall("validateConnection", req)),
               ConnectionInvalid(PoolBuildError))]
  /\ UNCHANGED << plugins, config, store, connection, isConnectedFlag, pools,
                  durable, monitor, limit, emits >>

\* validateConnection: the throwaway instance is built from config ||
\* this.config and the probe is issued on it
ValidateConnection(c, req) ==
  /\ CanStart(c)
  /\ started' = started + 1
  /\ LET h == Len(pools) + 1
         testConfig == IF req.given THEN req.config ELSE config
         call == NewCall("validateConnection", req)
         built == Log(call, <<"knex", h, TempKnexConfig(testConfig)>>)
     IN /\ pools' = Append(pools, [state |-> "open", cfg |-> TempKnexConfig(testConfig)])
        /\ calls' = [calls EXCEPT ![c] =
             [Log(built, <<"probe", h>>) EXCEPT !.pc = "vc_probe", !.conn = h]]
  /\ UNCHANGED << plugins, config, store, connection, isConnectedFlag, durable,
                  monitor, limit, emits >>

\* the probe returns: tempKnex.destroy() is issued
ValidateProbeOk(c) ==
  /\ At(c, "vc_probe")
  /\ PoolOpen(calls[c].conn)
  /\ calls' = [calls EXCEPT ![c] =
       [Log(Log(calls[c], <<"probed", calls[c].conn>>),
            <<"destroy", calls[c].conn>>) EXCEPT !.pc = "vc_destroy"]]
  /\ UNCHANGED << plugins, config, store, connection, isConnectedFlag, pools,
                  durable, monitor, started, limit, emits >>

\* a validateConnection that lets the probe's error through to its caller
ValidateProbeFailsThrows(c) ==
  /\ At(c, "vc_probe")
  /\ DriverRaises(c)
  /\ LET call == Charged(calls[c])
         error == DriverError(call, 0)
     IN calls' = [calls EXCEPT ![c] = Reject(Log(call, <<"raised", error>>), error)]
  /\ UNCHANGED << plugins, config, store, connection, isConnectedFlag, pools,
                  durable, monitor, started, limit, emits >>

\* the probe raises: the catch block returns the invalid result
ValidateProbeFails(c) ==
  /\ At(c, "vc_probe")
  /\ DriverRaises(c)
  /\ LET call == Charged(calls[c])
         error == DriverError(call, 0)
     IN calls' = [calls EXCEPT ![c] =
          Resolve(Log(call, <<"raised", error>>), ConnectionInvalid(error))]
  /\ UNCHANGED << plugins, config, store, connection, isConnectedFlag, pools,
                  durable, monitor, started, limit, emits >>

\* destroy resolves: the valid result is returned
ValidateDestroyed(c) ==
  /\ At(c, "vc_destroy")
  /\ pools' = [pools EXCEPT ![calls[c].conn].state = "destroyed"]
  /\ calls' = [calls EXCEPT ![c] =
       Resolve(Log(calls[c], <<"destroyed", calls[c].conn>>), ConnectionValid)]
  /\ UNCHANGED << plugins, config, store, connection, isConnectedFlag, durable,
                  monitor, started, limit, emits >>

\* destroy rejects: the catch block returns the invalid result
ValidateDestroyFails(c) ==
  /\ At(c, "vc_destroy")
  /\ CanFail(c)
  /\ LET error == <<"Destroy", calls[c].id>>
     IN calls' = [calls EXCEPT ![c] =
          Resolve(Faulted(calls[c]), ConnectionInvalid(error))]
  /\ UNCHANGED << plugins, config, store, connection, isConnectedFlag, pools,
                  durable, monitor, started, limit, emits >>

\* the counts the pool of handle h reports
PoolCounts(h) == <<"numFree", "numUsed", "numPendingCreates", h>>

\* getPoolInfo: null without a handle (a handle the manager holds has its
\* client and its pool), the pool's counts otherwise
getPoolInfo == IF connection = Null THEN <<>> ELSE PoolCounts(connection)

\* getPoolInfo(), called at any moment, also while another call is
\* suspended: it is synchronous and settles in the step that starts it.  Its
\* caller takes a slot the asynchronous calls leave free.
GetPoolInfo(c) ==
  /\ NoneSettled
  /\ started < limit.calls
  /\ c > limit.overlap
  /\ Free(c)
  /\ started' = started + 1
  /\ calls' = [calls EXCEPT ![c] = Resolve(NewCall("getPoolInfo", <<>>), getPoolInfo)]
  /\ UNCHANGED << plugins, config, store, connection, isConnectedFlag, pools,
                  durable, monitor, limit, emits >>

\* FirebirdCore.setConfig(key, value): configManager.set(key, value).  The
\* call is synchronous: it settles in the step that starts it.
SetConfig(c, setting) ==
  /\ CanStart(c)
  /\ started' = started + 1
  /\ store' = [key \in DOMAIN store \cup {setting[1]} |->
                 IF key = setting[1] THEN setting[2] ELSE store[key]]
  /\ calls' = [calls EXCEPT ![c] = Resolve(NewCall("setConfig", setting), <<"ok">>)]
  /\ UNCHANGED << plugins, config, connection, isConnectedFlag, pools, durable,
                  monitor, limit, emits >>

\* validateConnection and setConfig
Probing ==
  \/ \E c \in Slots : \E req \in ValidateRequests : ValidateConnectionBuildFails(c, req)
  \/ \E c \in Slots : \E req \in ValidateRequests : ValidateConnection(c, req)
  \/ \E c \in Slots : ValidateProbeOk(c)
  \/ \E c \in Slots : ValidateProbeFails(c)
  \/ \E c \in Slots : ValidateDestroyed(c)
  \/ \E c \in Slots : ValidateDestroyFails(c)
  \/ \E c \in Slots : GetPoolInfo(c)
  \/ \E c \in Slots : \E setting \in ConfigSettings : SetConfig(c, setting)

\* the facade with validateConnection and setConfig beside the lifecycle
\* calls, each call ending before the next starts; no observer is registered
ProbeInit ==
  /\ Constructed
  /\ limit = [calls |-> MaxProbeCalls, overlap |-> 1, faults |-> MaxProbeFaults,
             observers |-> 0]
  /\ emits = FALSE

ProbeNext ==
  \/ Probing
  \/ \E c \in Slots : Connect(c)
  \/ \E c \in Slots : Disconnect(c)
  \/ \E c \in Slots : \E partial \in PartialConfigs : UpdateConnection(c, partial)
  \/ \E c \in Slots : ConnectNoClientLib(c)
  \/ \E c \in Slots : ConnectBuildFails(c)
  \/ \E c \in Slots : ConnectBuild(c)
  \/ \E c \in Slots : ConnectProbeOk(c)
  \/ \E c \in Slots : ConnectProbeFails(c)
  \/ \E c \in Slots : ConnectThrow(c)
  \/ \E c \in Slots : ConnectReturn(c)
  \/ \E c \in Slots : DisconnectClose(c)
  \/ \E c \in Slots : DisconnectDestroyed(c)
  \/ \E c \in Slots : DisconnectDestroyFails(c)
  \/ \E c \in Slots : UpdateMerge(c)
  \/ \E c \in Slots : Rethrow(c)
  \/ \E c \in Slots : Forget(c)

ProbeSpec == ProbeInit /\ [][ProbeNext]_vars

(***************************************************************************)
(* Properties.  A call's trace holds what it did, in order: the dispatches *)
(* it awaited with each callback's start and end, the validators it ran,   *)
(* the statements it gave the driver.                                      *)
(***************************************************************************)
QueryOps == {"executeQuery", "executeTransaction", "executeSelect"}

Settled(c) == calls[c].pc = "done"

Failed(c) == Settled(c) /\ calls[c].err # NoErr

\* the positions of the trace that hold an event of this kind
Events(c, tag) == {i \in 1..Len(calls[c].trace) : calls[c].trace[i][1] = tag}

\* the positions of the trace where a dispatch of this phase starts
Dispatches(c, phase) == {i \in Events(c, "dispatch") : calls[c].trace[i][2] = phase}

\* the positions of the trace where a callback of this phase throws
Throws(c, phase) == {i \in Events(c, "throw") : calls[c].trace[i][2] = phase}

\* C1: a call of executeQuery, executeTransaction or executeSelect made while
\* isConnected() is false fails at once with the not-connected error: it has
\* dispatched no hook, run no validator, opened no transaction and given the
\* driver nothing.
NotConnectedFailsFirst ==
  [][\A c \in Slots :
       (calls[c].pc = "idle" /\ calls'[c].op \in QueryOps /\ ~isConnectedFlag)
         => /\ calls'[c].pc = "done"
            /\ calls'[c].err = NotConnectedError
            /\ calls'[c].res = NoRes
            /\ calls'[c].trace = <<>>
            /\ monitor' = monitor
            /\ durable' = durable]_vars

\* a transaction called after a disconnect has failed with the not-connected
\* error
NotConnectedReached ==
  \E c \in Slots :
    /\ Settled(c)
    /\ calls[c].op = "executeTransaction"
    /\ calls[c].err = NotConnectedError
    /\ \E h \in 1..Len(pools) : pools[h].state = "destroyed"

\* C2, as the specification states it: executeQuery on a connected manager
\* with SQL the read-path validator rejects fails with 'Consulta invalida:
\* <reason>' and never calls raw().
RejectedQueryFailsInvalid ==
  \A c \in Slots :
    (/\ Settled(c)
     /\ calls[c].op = "executeQuery"
     /\ Dispatches(c, "beforeQuery") # {}
     /\ ~validateSql(calls[c].arg.sql).valid)
      => /\ calls[c].err = InvalidQueryError(validateSql(calls[c].arg.sql).error)
         /\ Events(c, "raw") = {}

\* C2: executeQuery on a connected manager with SQL the read-path validator
\* rejects never calls raw() and fails: with 'Consulta invalida: <reason>'
\* when no beforeQuery or onError observer throws, with the error of the
\* observer that threw otherwise.
RejectedQueryNeverRuns ==
  \A c \in Slots :
    (/\ calls[c].op = "executeQuery"
     /\ Dispatches(c, "beforeQuery") # {}
     /\ ~validateSql(calls[c].arg.sql).valid)
      => /\ Events(c, "raw") = {}
         /\ Events(c, "rows") = {}
         /\ Settled(c) =>
              /\ calls[c].res = NoRes
              /\ IF Events(c, "throw") = {}
                   THEN calls[c].err =
                          InvalidQueryError(validateSql(calls[c].arg.sql).error)
                   ELSE /\ calls[c].err[1] = "Observer"
                        /\ calls[c].err[2] \in {"beforeQuery", "onError"}

\* a rejected query has failed with the validator's reason, its onError
\* dispatch over
RejectedQueryReached ==
  \E c \in Slots :
    /\ Settled(c)
    /\ calls[c].op = "executeQuery"
    /\ calls[c].err = InvalidQueryError(KeywordError(kwDROP))
    /\ Dispatches(c, "onError") # {}
    /\ Events(c, "call") # {}

\* the statements of call c the database holds durably
DurableOf(c) == {s \in durable : s[1] = calls[c].id}

\* the statements of call c the driver was given, by their position
Issued(c) == {calls[c].trace[i][2] : i \in Events(c, "trx.raw")}

\* C3: a transaction in which a statement fails validation or execution is
\* never committed: nothing any of its statements did is durable, no statement
\* after the failing one is given to the driver, and the caller gets the
\* failure and no result list.  Until the commit nothing is durable either.
FailedTransactionAppliesNothing ==
  \A c \in Slots :
    calls[c].op = "executeTransaction" =>
      /\ (~Settled(c) \/ Failed(c)) => DurableOf(c) = {}
      /\ Failed(c) =>
           /\ Events(c, "commit") = {}
           /\ calls[c].res = NoRes
           /\ \A k \in Issued(c) : k <= calls[c].k + 1
      /\ (Settled(c) /\ ~Failed(c)) =>
           /\ Len(calls[c].res) = Len(calls[c].arg)
           /\ DurableOf(c) = {<<calls[c].id, k>> : k \in 1..Len(calls[c].arg)}

\* a transaction has failed at its second statement after its first did its
\* work: by the validator, and by the driver with a statement left to run
FailedTransactionReached ==
  \E c \in Slots :
    /\ Failed(c)
    /\ calls[c].op = "executeTransaction"
    /\ calls[c].applied # {}
    /\ Events(c, "rollback") # {}
    /\ calls[c].err[1] \in {"Consulta invalida", "Driver"}

\* C4, as the specification states it: in every state, whatever connect,
\* disconnect and updateConnection calls overlap, isConnected() is true only
\* if the held handle is not null, so that getConnection() returns a handle
\* whenever isConnected() is true.
ConnectedHoldsHandle ==
  /\ isConnected => connection # Null
  /\ isConnected => getConnection # Null
  /\ ~isConnected => getConnection = Null

\* a connect() has returned success and the manager reports connected while
\* it holds no handle
ConnectedWithoutHandle ==
  /\ isConnected
  /\ connection = Null
  /\ \E c \in Slots : Settled(c) /\ calls[c].res = ConnectSuccess

ConnectOps == {"connect", "updateConnection"}

\* the call has entered connect(): by itself, or from updateConnection
ConnectStarted(c) ==
  calls[c].op \in ConnectOps /\ Dispatches(c, "beforeConnect") # {}

\* the positions of the trace where a dispatch of this phase ended
Ends(c, phase) == {i \in Events(c, "end") : calls[c].trace[i][2] = phase}

\* C5: a connect() whose steps all succeed has dispatched beforeConnect with
\* the current config and awaited it before it built the pool, has probed
\* the handle it built, has dispatched afterConnect with that handle after
\* the probe returned, and returns success; the manager is then connected and
\* getConnection() returns that handle.
ConnectSucceedsInOrder ==
  \A c \in Slots :
    (ConnectStarted(c) /\ Settled(c) /\ ~Failed(c)) =>
      \E b \in Dispatches(c, "beforeConnect"), e \in Ends(c, "beforeConnect"),
         k \in Events(c, "knex"), p \in Events(c, "probe"),
         r \in Events(c, "probed"), a \in Dispatches(c, "afterConnect") :
        LET t == calls[c].trace
            h == t[k][2]
        IN /\ b < e /\ e < k /\ k < p /\ p < r /\ r < a
           /\ t[b][3] = config
           /\ t[k][3] = KnexConfig(config)
           /\ t[p][2] = h /\ t[r][2] = h /\ t[a][3] = h
           /\ PoolOpen(h)
           /\ calls[c].res = ConnectSuccess
           /\ isConnected
           /\ getConnection = h

\* a connect() has succeeded with two observers registered, after an earlier
\* handle was destroyed
ConnectSucceededReached ==
  \E c \in Slots :
    /\ ConnectStarted(c) /\ Settled(c) /\ ~Failed(c)
    /\ Len(plugins) = 2
    /\ getConnection = 2

\* what made connect() fail: the driver's error, the observer's, the missing
\* client library, or the pool's construction
Underlying(c) ==
  LET t == calls[c].trace
      hooks == Throws(c, "beforeConnect") \cup Throws(c, "afterConnect")
  IN IF Events(c, "raised") # {}
       THEN t[CHOOSE i \in Events(c, "raised") : TRUE][2]
     ELSE IF hooks # {}
       THEN LET i == CHOOSE i \in hooks : TRUE IN <<"Observer", t[i][2], t[i][3]>>
     ELSE IF Events(c, "knex") = {} /\ ClientLibMissing THEN ClientLibError
     ELSE PoolBuildError

\* connect()'s catch block has dispatched onError with what made it fail
ErrorDispatched(c) ==
  \E i \in Dispatches(c, "onError") : calls[c].trace[i][3] = Underlying(c)

\* C6, as the specification states it: when a step of connect() fails the
\* manager is left not connected with no handle, onError has been dispatched
\* with the underlying error, and the caller gets 'Falha na conexao:
\* <underlying message>'.
ConnectFailsWrapped ==
  \A c \in Slots :
    (ConnectStarted(c) /\ Failed(c)) =>
      /\ ~isConnected
      /\ connection = Null
      /\ ErrorDispatched(c)
      /\ calls[c].err = ConnectError(Underlying(c))

\* C6: when a step of connect() fails the manager is left not connected with
\* no handle and onError has been dispatched with the underlying error; the
\* caller gets 'Falha na conexao: <underlying message>' unless an onError
\* observer throws, and then gets that observer's error, not wrapped.
ConnectFailsCleared ==
  \A c \in Slots :
    (ConnectStarted(c) /\ Failed(c)) =>
      /\ ~isConnected
      /\ connection = Null
      /\ getConnection = Null
      /\ ErrorDispatched(c)
      /\ IF Throws(c, "onError") = {}
           THEN calls[c].err = ConnectError(Underlying(c))
           ELSE \E i \in Throws(c, "onError") :
                  calls[c].err = <<"Observer", "onError", calls[c].trace[i][3]>>

\* a connect() has failed at its probe, the observers told, the caller given
\* the wrapped error
ConnectFailedReached ==
  \E c \in Slots :
    /\ ConnectStarted(c) /\ Failed(c)
    /\ Events(c, "raised") # {}
    /\ Len(plugins) = 2
    /\ calls[c].err = ConnectError(DriverError(calls[c], 0))

\* the listeners' dispatches of this phase still running for call c
Listening(c, phase) ==
  {m \in 1..Len(monitor) :
     monitor[m].id = calls[c].id /\ monitor[m].phase = phase}

\* C7, as the specification states it: when the driver raises while
\* executeQuery, executeSelect or executeTransaction runs a statement, the
\* onError phase has been dispatched with the driver's error by the time the
\* caller gets the failure: by the engine, which awaits it, or by the
\* driver's 'query-error' listener, its dispatch over.
DriverErrorReported ==
  \A c \in Slots :
    (Settled(c) /\ calls[c].op \in QueryOps /\ Events(c, "raised") # {}) =>
      \/ \E r \in Events(c, "raised"), i \in Dispatches(c, "onError") :
           r < i /\ calls[c].trace[i][3] = calls[c].trace[r][2]
      \/ emits /\ Listening(c, "onError") = {}

\* a transaction has failed on a driver error that the engine dispatched to
\* nobody, the listener's dispatch of it still running
DriverErrorUnreported ==
  \E c \in Slots :
    /\ Settled(c)
    /\ calls[c].op = "executeTransaction"
    /\ Events(c, "raised") # {}
    /\ Dispatches(c, "onError") = {}
    /\ Listening(c, "onError") # {}

\* C8, as the specification states it: an executeQuery call past the
\* connected check has dispatched beforeQuery once and, when it returns to
\* its caller, exactly one of afterQuery (it succeeded) and onError (it
\* failed).
OneOutcomePhase ==
  \A c \in Slots :
    (Settled(c) /\ calls[c].op = "executeQuery"
       /\ calls[c].err # NotConnectedError) =>
      /\ Cardinality(Dispatches(c, "beforeQuery")) = 1
      /\ Cardinality(Dispatches(c, "afterQuery") \cup Dispatches(c, "onError")) = 1
      /\ Failed(c) <=> Dispatches(c, "onError") # {}

\* an executeQuery has failed after dispatching both afterQuery and onError
BothPhasesReached ==
  \E c \in Slots :
    /\ Settled(c)
    /\ calls[c].op = "executeQuery"
    /\ Dispatches(c, "afterQuery") # {}
    /\ Dispatches(c, "onError") # {}

\* the plugins a dispatch of this phase calls, by position
Implementing(phase) ==
  {j \in 1..Len(plugins) : Implements(plugins[j], phase)}

\* the callbacks the dispatch starting at position d of the trace has started
CallsOf(c, d) ==
  {i \in Events(c, "call") :
     i > d /\ \A x \in (d + 1)..i : calls[c].trace[x][1] # "dispatch"}

\* the plugins called before position i of the trace by the dispatch at d
CalledBefore(c, d, i) == {calls[c].trace[x][3] : x \in {y \in CallsOf(c, d) : y < i}}

\* C9: a dispatch of any phase calls the phase's callback on exactly the
\* registered plugins that implement it, in registration order, skipping the
\* others, and starts a callback only after the one before has completed.
DispatchInOrder ==
  \A c \in Slots :
    LET t == calls[c].trace
    IN \A d \in Events(c, "dispatch") :
         LET phase == t[d][2]
         IN /\ \A i \in CallsOf(c, d) :
                 /\ t[i][2] = phase
                 /\ t[i][3] \in Implementing(phase)
                 /\ t[i][4] = plugins[t[i][3]]
                 /\ CalledBefore(c, d, i) = {j \in Implementing(phase) : j < t[i][3]}
                 /\ i < Len(t) =>
                      /\ t[i + 1][1] \in {"return", "throw"}
                      /\ t[i + 1][2] = phase
                      /\ t[i + 1][3] = t[i][3]
            /\ \A e \in Ends(c, phase) :
                 (e > d /\ \A x \in (d + 1)..e : t[x][1] # "dispatch")
                   => CalledBefore(c, d, e) = Implementing(phase)

\* with B registered before A, an executeQuery has ended its beforeQuery
\* dispatch, which B lacks, and its afterQuery dispatch, which both have
DispatchInOrderReached ==
  \E c \in Slots :
    /\ plugins = <<"B", "A">>
    /\ calls[c].op = "executeQuery"
    /\ Ends(c, "beforeQuery") # {}
    /\ Ends(c, "afterQuery") # {}

\* C10: when a callback throws, the dispatch calls no later plugin and does
\* not end normally: the failure is its caller's, whose call fails; a direct
\* caller of the dispatch gets the observer's error itself.
ThrowAbortsDispatch ==
  \A c \in Slots :
    LET t == calls[c].trace
    IN /\ \A i \in Events(c, "throw") :
            i < Len(t) => t[i + 1][1] \notin {"call", "return", "end"}
       /\ (Settled(c) /\ Events(c, "throw") # {}) => Failed(c)
       /\ (Settled(c) /\ calls[c].op = "dispatch") =>
            \A i \in Events(c, "throw") :
              calls[c].err = <<"Observer", t[i][2], t[i][3]>>

\* with A registered before B, A's init has thrown and the direct caller has
\* the failure; B's init was not called
ThrowAbortsReached ==
  \E c \in Slots :
    /\ plugins = <<"A", "B">>
    /\ Settled(c) /\ calls[c].op = "dispatch"
    /\ calls[c].err = <<"Observer", "init", 1>>
    /\ Cardinality(Events(c, "call")) = 1


(***************************************************************************)
(* Registration, disconnect and reconfiguration.                           *)
(***************************************************************************)
\* the step is a call of register
Registers(c) == calls[c].pc = "idle" /\ calls'[c].op = "register"

\* C11: register(plugin) throws 'Plugin deve implementar o metodo init' and
\* leaves the plugin list as it was when the plugin has no init function, so
\* that no dispatch ever calls that plugin; otherwise it appends the plugin
\* at the end of the list.
RegisterThrowsOrAppends ==
  /\ [][\A c \in Slots : Registers(c) =>
          LET o == calls'[c].arg
          IN IF "init" \in Capabilities(o)
               THEN calls'[c].err = NoErr /\ plugins' = Append(plugins, o)
               ELSE calls'[c].err = InitMissingError /\ plugins' = plugins]_vars
  /\ [](/\ \A j \in 1..Len(plugins) : "init" \in Capabilities(plugins[j])
        /\ \A c \in Slots : \A i \in Events(c, "call") :
             "init" \in Capabilities(calls[c].trace[i][4]))

\* register has thrown for a plugin without init, after another plugin was
\* registered
RegisterThrowsReached ==
  \E c \in Slots :
    /\ Settled(c) /\ calls[c].op = "register"
    /\ "init" \notin Capabilities(calls[c].arg)
    /\ calls[c].err = InitMissingError
    /\ Len(plugins) > 0

\* the positions of the trace where the dispatch of this phase has ended
Ended(c, phase) == {i \in Events(c, "end") : calls[c].trace[i][2] = phase}

\* C12: disconnect() dispatches beforeDisconnect before it closes the handle;
\* when a handle exists and the close succeeds, isConnected() is false and
\* getConnection() is null afterwards; when no handle exists it closes
\* nothing and completes without error.
DisconnectClosesAfterDispatch ==
  /\ [](\A c \in Slots : calls[c].op = "disconnect" =>
          /\ \A i \in Events(c, "destroy") :
               \E j \in Ended(c, "beforeDisconnect") : j < i
          /\ (Settled(c) /\ Events(c, "destroyed") # {}) =>
               /\ calls[c].err = NoErr
               /\ ~isConnected
               /\ getConnection = Null
               /\ connection = Null)
  /\ [][\A c \in Slots :
          (calls[c].op = "disconnect" /\ calls[c].pc = "dc_close"
             /\ calls'[c] # calls[c] /\ connection = Null)
          => /\ calls'[c].pc = "done"
             /\ calls'[c].err = NoErr
             /\ calls'[c].trace = calls[c].trace
             /\ pools' = pools]_vars

\* a disconnect that closed the handle has completed
DisconnectClosedReached ==
  \E c \in Slots :
    /\ Settled(c) /\ calls[c].op = "disconnect" /\ calls[c].err = NoErr
    /\ Events(c, "destroyed") # {}
    /\ Ended(c, "beforeDisconnect") # {}

\* a disconnect without a handle has completed
DisconnectIdleReached ==
  \E c \in Slots :
    /\ Settled(c) /\ calls[c].op = "disconnect" /\ calls[c].err = NoErr
    /\ Events(c, "destroy") = {}

\* the error a failed close of call c's handle raises
CloseError(c) == <<"Destroy", calls[c].id>>

\* disconnect call c has settled after the close of its handle failed: the
\* catch block dispatched onError with the close error
CloseFailed(c) ==
  /\ Settled(c) /\ calls[c].op = "disconnect"
  /\ Events(c, "destroy") # {}
  /\ Events(c, "destroyed") = {}
  /\ \E i \in Dispatches(c, "onError") : calls[c].trace[i][3] = CloseError(c)

\* the handle and the flag are as they were when the close was issued
CloseLeftAlone(c) ==
  /\ connection = calls[c].conn
  /\ connection # Null
  /\ isConnectedFlag
  /\ pools[calls[c].conn].state = "open"

\* C13 as stated: when the close fails inside disconnect(), onError is
\* dispatched with the close error, that same error reaches the caller, and
\* the handle and the flag are left as they were.
CloseFailurePropagates ==
  \A c \in Slots :
    (Settled(c) /\ calls[c].op = "disconnect"
       /\ Events(c, "destroy") # {} /\ Events(c, "destroyed") = {})
    => /\ CloseFailed(c)
       /\ calls[c].err = CloseError(c)
       /\ CloseLeftAlone(c)

\* C13: when the close fails inside disconnect(), onError is dispatched with
\* the close error and the handle and the flag are left as they were; the
\* caller gets the close error unless an onError observer throws, and that
\* observer's error when one does.
CloseFailureKeepsHandle ==
  \A c \in Slots :
    (Settled(c) /\ calls[c].op = "disconnect"
       /\ Events(c, "destroy") # {} /\ Events(c, "destroyed") = {})
    => /\ CloseFailed(c)
       /\ CloseLeftAlone(c)
       /\ IF Throws(c, "onError") = {}
            THEN calls[c].err = CloseError(c)
            ELSE \E i \in Throws(c, "onError") :
                   calls[c].err = <<"Observer", "onError", calls[c].trace[i][3]>>

\* a disconnect whose close failed has rethrown the close error
CloseFailureReached ==
  \E c \in Slots :
    /\ CloseFailed(c)
    /\ calls[c].err = CloseError(c)
    /\ CloseLeftAlone(c)

\* updateConnection call c has torn the pool down and its new connection's
\* probe has not succeeded
InWindow(c) ==
  /\ calls[c].op = "updateConnection"
  /\ Events(c, "destroyed") # {}
  /\ Events(c, "probed") = {}

\* C14: updateConnection on a connected manager tears the existing pool down
\* before it builds the new one; from the teardown until the new
\* connection's probe succeeds isConnected() is false, and a query called in
\* between fails at once with the not-connected error.
ReconfigureWindowRefuses ==
  /\ [](\A c \in Slots : calls[c].op = "updateConnection" =>
          /\ Dispatches(c, "beforeDisconnect") # {} =>
               \A i \in Events(c, "knex") :
                 \E j \in Events(c, "destroyed") : j < i
          /\ InWindow(c) => ~isConnected)
  /\ [][\A b \in Slots :
          (/\ calls[b].pc = "idle"
           /\ calls'[b].op \in QueryOps
           /\ \E c \in Slots : InWindow(c))
          => /\ calls'[b].pc = "done"
             /\ calls'[b].err = NotConnectedError
             /\ calls'[b].trace = <<>>]_vars

\* a query called while updateConnection was building the new pool has
\* failed with the not-connected error
ReconfigureWindowReached ==
  \E c \in Slots : \E b \in Slots :
    /\ InWindow(c) /\ ~Settled(c)
    /\ Events(c, "knex") # {}
    /\ Settled(b) /\ calls[b].op \in QueryOps
    /\ calls[b].err = NotConnectedError

(***************************************************************************)
(* The validators.                                                         *)
(***************************************************************************)
ValidatorOps == {"validateSql", "validateSqlForTransaction"}

\* ch is the upper-case letter up, in either case
SameLetter(ch, up) ==
  ch = up \/ \E i \in 1..26 : Lower[i] = ch /\ UpperL[i] = up

\* the text holds the keyword at position i, in any letter case
SpellsAt(text, i, kw) ==
  /\ i >= 1
  /\ i + Len(kw) - 1 <= Len(text)
  /\ \A j \in 1..Len(kw) : SameLetter(text[i + j - 1], kw[j])

\* the text holds the keyword somewhere, in any letter case
Spells(text, kw) == \E i \in 1..Len(text) : SpellsAt(text, i, kw)

\* the destructive-schema keywords the text holds
Destructive(text) ==
  {kw \in {kwDROP, kwTRUNCATE, kwALTER, kwCREATE} : Spells(text, kw)}

\* the data-mutation keywords the text holds
Mutating(text) == {kw \in {kwDELETE, kwUPDATE, kwINSERT} : Spells(text, kw)}

\* C15: a text that holds DROP, TRUNCATE, ALTER or CREATE, in any letter case
\* and at any position, is rejected by validateSql and by
\* validateSqlForTransaction with 'Keyword nao permitido: <KEYWORD>' naming a
\* keyword the text holds.
DestructiveKeywordRejected ==
  \A c \in Slots :
    (Settled(c) /\ calls[c].op \in ValidatorOps /\ Destructive(calls[c].arg) # {})
    => /\ ~calls[c].res.valid
       /\ \E kw \in Destructive(calls[c].arg) :
            calls[c].res.error = KeywordError(kw)

\* the write path has rejected a text that holds a destructive keyword in
\* mixed case after its first character
DestructiveKeywordReached ==
  \E c \in Slots :
    /\ Settled(c) /\ calls[c].op = "validateSqlForTransaction"
    /\ Destructive(calls[c].arg) # {}
    /\ \A kw \in Destructive(calls[c].arg) :
         /\ \A i \in 1..Len(calls[c].arg) : ~HasAt(calls[c].arg, i, kw)
         /\ ~SpellsAt(calls[c].arg, 1, kw)
    /\ ~calls[c].res.valid

\* the text holds a statement separator or a comment sequence
HoldsSeparator(text) ==
  \E i \in 1..Len(text) :
    \/ text[i] \in {";", "#"}
    \/ i < Len(text) /\ <<text[i], text[i+1]>> \in {<<"-","-">>, <<"/","*">>, <<"*","/">>}

\* the text holds a marker of privileged procedure execution
HoldsExecMarker(text) ==
  \/ Spells(text, <<"E","X","E","C">>)
  \/ Spells(text, <<"S","P","_">>)
  \/ Spells(text, <<"X","P","_">>)

\* the text holds OR 1=1 or AND 1=1 as words: the operator in any letter
\* case, white space, 1, = with any white space around it, 1
NumericTautology(text) ==
  LET n == Len(text)
  IN \E i \in 1..n : \E w \in {kwOR, kwAND} :
       /\ SpellsAt(text, i, w)
       /\ i > 1 => ~IsWord(text[i-1])
       /\ \E a \in (i + Len(w) + 1)..n : \E e \in (a+1)..n : \E b \in (e+1)..n :
            /\ AllSpace(text, i + Len(w), a - 1)
            /\ text[a] = "1"
            /\ AllSpace(text, a + 1, e - 1)
            /\ text[e] = "="
            /\ AllSpace(text, e + 1, b - 1)
            /\ text[b] = "1"
            /\ b < n => ~IsWord(text[b+1])

\* the text has no violation other than a write operation: no destructive
\* keyword, no quoted text, none of the injection patterns
OnlyMutating(text) ==
  /\ Mutating(text) # {}
  /\ Destructive(text) = {}
  /\ ~HoldsSeparator(text)
  /\ ~HoldsExecMarker(text)
  /\ ~NumericTautology(text)
  /\ \A i \in 1..Len(text) : ~IsQuote(text[i])

\* C16: a text that holds DELETE, UPDATE or INSERT and no other violation is
\* rejected by validateSql with a reason naming a write keyword it holds and
\* is accepted by validateSqlForTransaction.
WriteKeywordReadOnlyRejected ==
  \A c \in Slots :
    (Settled(c) /\ OnlyMutating(calls[c].arg)) =>
      /\ calls[c].op = "validateSql" =>
           /\ ~calls[c].res.valid
           /\ \E kw \in Mutating(calls[c].arg) :
                calls[c].res.error = KeywordError(kw)
      /\ calls[c].op = "validateSqlForTransaction" => calls[c].res = Valid

\* the write path has accepted a text with a write keyword
WriteKeywordAcceptedReached ==
  \E c \in Slots :
    /\ Settled(c) /\ calls[c].op = "validateSqlForTransaction"
    /\ OnlyMutating(calls[c].arg)
    /\ calls[c].res.valid

\* the read path has rejected a text with a write keyword
WriteKeywordRejectedReached ==
  \E c \in Slots :
    /\ Settled(c) /\ calls[c].op = "validateSql"
    /\ OnlyMutating(calls[c].arg)
    /\ ~calls[c].res.valid

\* the text holds OR 1=1 or AND 1=1 as words, with nothing around the =
TightTautology(text) ==
  LET n == Len(text)
  IN \E i \in 1..n : \E w \in {kwOR, kwAND} :
       /\ SpellsAt(text, i, w)
       /\ i > 1 => ~IsWord(text[i-1])
       /\ \E a \in (i + Len(w) + 1)..n :
            /\ AllSpace(text, i + Len(w), a - 1)
            /\ HasAt(text, a, <<"1","=","1">>)
            /\ a + 2 < n => ~IsWord(text[a+3])

\* the text holds no keyword that either validator names
NoKeyword(text) == Destructive(text) = {} /\ Mutating(text) = {}

\* C17 as stated: a text with a numeric OR/AND tautology, such as
\* 'SELECT * FROM t WHERE id=1 OR 1=1', is rejected by validateSql and by
\* validateSqlForTransaction with 'Padrao de injecao SQL detectado'.
NumericTautologyRejected ==
  \A c \in Slots :
    (/\ Settled(c) /\ calls[c].op \in ValidatorOps
     /\ TightTautology(calls[c].arg) /\ NoKeyword(calls[c].arg))
    => calls[c].res = Invalid(InjectionError)

\* the write path has accepted a text with OR 1=1
NumericTautologyAccepted ==
  \E c \in Slots :
    /\ Settled(c) /\ calls[c].op = "validateSqlForTransaction"
    /\ TightTautology(calls[c].arg) /\ NoKeyword(calls[c].arg)
    /\ calls[c].res = Valid

\* the read path rejects every text with OR 1=1 or AND 1=1 written without
\* white space around the =
ReadPathRejectsTight ==
  \A c \in Slots :
    (/\ Settled(c) /\ calls[c].op = "validateSql"
     /\ TightTautology(calls[c].arg) /\ NoKeyword(calls[c].arg))
    => calls[c].res = Invalid(InjectionError)

\* C18 as stated: validateSql rejects OR 1=1 and AND 1=1 in any letter case,
\* with any white space, or none, on either side of the = and at least one
\* white space after the operator.
SpacedTautologyRejected ==
  \A c \in Slots :
    (/\ Settled(c) /\ calls[c].op = "validateSql"
     /\ NumericTautology(calls[c].arg) /\ NoKeyword(calls[c].arg))
    => calls[c].res = Invalid(InjectionError)

\* the read path has accepted a text with OR 1= 1
SpacedTautologyAccepted ==
  \E c \in Slots :
    /\ Settled(c) /\ calls[c].op = "validateSql"
    /\ NumericTautology(calls[c].arg) /\ NoKeyword(calls[c].arg)
    /\ calls[c].res = Valid

(***************************************************************************)
(* Validation before the driver.                                           *)
(***************************************************************************)
\* the positions of the trace where the driver is given a statement
Given(c) == Events(c, "raw") \cup Events(c, "trx.raw") \cup Events(c, "select")

\* the positions of the trace where a validator accepted a text
Accepted(c) == {i \in Events(c, "validate") : calls[c].trace[i][3]}

\* the positions of the trace where a validator rejected a text
Refused(c) == {i \in Events(c, "validate") : ~calls[c].trace[i][3]}

\* C19 as stated: every statement the driver is given by executeQuery,
\* executeTransaction or executeSelect has passed a validator first.
ValidatedBeforeDriver ==
  \A c \in Slots : calls[c].op \in QueryOps =>
    \A i \in Given(c) : \E j \in Accepted(c) : j < i

\* executeSelect has given the driver a statement and no validator has run
SelectUnvalidated ==
  \E c \in Slots :
    /\ calls[c].op = "executeSelect"
    /\ Events(c, "select") # {}
    /\ Events(c, "validate") = {}

\* executeQuery and executeTransaction give the driver only texts their
\* validator accepted just before
RawValidatedBeforeDriver ==
  \A c \in Slots :
    \A i \in Events(c, "raw") \cup Events(c, "trx.raw") :
      /\ i - 1 \in Accepted(c)
      /\ calls[c].trace[i - 1][2] = calls[c].trace[i][3]

\* C20 as stated: when a statement of executeTransaction fails the write-path
\* validator, the driver has neither begun a transaction nor executed any
\* statement of the list.
RejectionBeforeDriver ==
  \A c \in Slots : calls[c].op = "executeTransaction" =>
    \A i \in Refused(c) :
      \A j \in 1..(i - 1) : calls[c].trace[j][1] \notin {"begin", "trx.raw"}

\* the write-path validator has rejected the second statement after the
\* driver began the transaction and executed the first
RejectionAfterDriver ==
  \E c \in Slots :
    /\ calls[c].op = "executeTransaction"
    /\ \E i \in Refused(c) :
         /\ \E j \in Events(c, "begin") : j < i
         /\ \E j \in Events(c, "trx.raw") : j < i
    /\ calls[c].applied # {}

(***************************************************************************)
(* The successful paths of the query operations.                           *)
(***************************************************************************)
\* the trace of call c without what the observers' callbacks did
Skeleton(c) ==
  SelectSeq(calls[c].trace, LAMBDA ev : ev[1] \notin {"call", "return", "throw"})

\* query.bindings || []
GivenBindings(q) == IF "bindings" \in DOMAIN q THEN q.bindings ELSE <<>>

\* C21: a successful executeTransaction opens exactly one transaction and,
\* for the statements in array order, dispatches beforeQuery, validates with
\* the write-path validator, executes inside the transaction and dispatches
\* afterQuery for statement i before it starts statement i+1; it returns the
\* list whose i-th element is the driver's result of statement i.
TransactionInOrder ==
  \A c \in Slots :
    (Settled(c) /\ ~Failed(c) /\ calls[c].op = "executeTransaction") =>
      LET s == Skeleton(c)
          q == calls[c].arg
          n == Len(q)
      IN /\ Len(s) = 7 * n + 2
         /\ s[1][1] = "begin"
         /\ s[7 * n + 2] = <<"commit">>
         /\ Len(calls[c].res) = n
         /\ \A k \in 1..n :
              LET at == 7 * (k - 1) + 1
              IN /\ s[at + 1] = <<"dispatch", "beforeQuery", q[k]>>
                 /\ s[at + 2] = <<"end", "beforeQuery">>
                 /\ s[at + 3] = <<"validate", q[k].sql, TRUE>>
                 /\ s[at + 4] = <<"trx.raw", k, q[k].sql, GivenBindings(q[k])>>
                 /\ s[at + 5][1] = "rows"
                 /\ s[at + 6] = <<"dispatch", "afterQuery", s[at + 5][2]>>
                 /\ s[at + 7] = <<"end", "afterQuery">>
                 /\ calls[c].res[k] = s[at + 5][2]

\* a transaction of two statements has succeeded with an observer registered
TransactionInOrderReached ==
  \E c \in Slots :
    /\ Settled(c) /\ ~Failed(c) /\ calls[c].op = "executeTransaction"
    /\ Len(calls[c].arg) = 2
    /\ Len(calls[c].res) = 2
    /\ Events(c, "call") # {}
    /\ Events(c, "commit") # {}

\* C22: for a valid SQL text executeQuery gives the driver the caller's text
\* as it was given, neither trimmed nor upper-cased, with the caller's
\* bindings or an empty list when there are none, dispatches afterQuery with
\* the driver's result and returns that result.
QueryPassedUnchanged ==
  \A c \in Slots : calls[c].op = "executeQuery" =>
    /\ \A i \in Events(c, "raw") :
         /\ calls[c].trace[i][3] = calls[c].arg.sql
         /\ calls[c].trace[i][4] = GivenBindings(calls[c].arg)
    /\ (Settled(c) /\ ~Failed(c)) =>
         LET s == Skeleton(c)
         IN /\ Len(s) = 7
            /\ s[1] = <<"dispatch", "beforeQuery", calls[c].arg>>
            /\ s[2] = <<"end", "beforeQuery">>
            /\ s[3] = <<"validate", calls[c].arg.sql, TRUE>>
            /\ s[4] = <<"raw", calls[c].conn, calls[c].arg.sql,
                        GivenBindings(calls[c].arg)>>
            /\ s[5][1] = "rows"
            /\ s[6] = <<"dispatch", "afterQuery", s[5][2]>>
            /\ s[7] = <<"end", "afterQuery">>
            /\ calls[c].res = s[5][2]

\* executeQuery has returned the result of a padded lower-case text given
\* without bindings
QueryPassedUnchangedReached ==
  \E c \in Slots :
    /\ Settled(c) /\ ~Failed(c) /\ calls[c].op = "executeQuery"
    /\ calls[c].arg.sql # toUpperCase(trim(calls[c].arg.sql))
    /\ "bindings" \notin DOMAIN calls[c].arg
    /\ \E i \in Events(c, "raw") : calls[c].trace[i][4] = <<>>

\* executeQuery has returned the result of a text given with bindings
QueryWithBindingsReached ==
  \E c \in Slots :
    /\ Settled(c) /\ ~Failed(c) /\ calls[c].op = "executeQuery"
    /\ \E i \in Events(c, "raw") : calls[c].trace[i][4] = <<7>>

\* the builder calls of this kind in a built query, in their order
Clauses(built, tag) == SelectSeq(built, LAMBDA cl : cl[1] = tag)

RequestOptions(req) == IF "options" \in DOMAIN req THEN req.options ELSE <<>>

RequestConditions(req) == IF "conditions" \in DOMAIN req THEN req.conditions ELSE <<>>

\* one equality filter per key of the conditions, in their order, and the
\* ordering when orderBy is given, ascending when it has no direction
FiltersAndOrder(built, req) ==
  LET w == RequestConditions(req)
      o == RequestOptions(req)
  IN /\ built[1] = <<"from", req.tableName>>
     /\ Clauses(built, "where") = [k \in 1..Len(w) |-> <<"where", w[k][1], w[k][2]>>]
     /\ Clauses(built, "orderBy") =
          IF "orderBy" \in DOMAIN o
            THEN << <<"orderBy", o.orderBy.field,
                      IF "direction" \in DOMAIN o.orderBy
                        THEN o.orderBy.direction ELSE "asc">> >>
            ELSE <<>>

\* C23 as stated: executeSelect builds a query with one equality filter per
\* key of the conditions, a row limit if and only if options.limit is given,
\* a row offset if and only if options.offset is given, and an ordering on
\* orderBy.field, ascending by default, if and only if orderBy is given.
SelectBuiltAsSpecified ==
  \A c \in Slots : calls[c].op = "executeSelect" =>
    \A i \in Events(c, "select") :
      LET built == calls[c].trace[i][3]
          o == RequestOptions(calls[c].arg)
      IN /\ FiltersAndOrder(built, calls[c].arg)
         /\ Clauses(built, "limit") =
              IF "limit" \in DOMAIN o THEN << <<"limit", o.limit>> >> ELSE <<>>
         /\ Clauses(built, "offset") =
              IF "offset" \in DOMAIN o THEN << <<"offset", o.offset>> >> ELSE <<>>

\* executeSelect given limit 0 has built a query without a row limit
SelectLimitZeroDropped ==
  \E c \in Slots :
    /\ calls[c].op = "executeSelect"
    /\ "limit" \in DOMAIN RequestOptions(calls[c].arg)
    /\ RequestOptions(calls[c].arg).limit = 0
    /\ \E i \in Events(c, "select") : Clauses(calls[c].trace[i][3], "limit") = <<>>

\* the query is built as stated whenever the limit and the offset given are
\* not zero
SelectBuiltWhenNonZero ==
  \A c \in Slots : calls[c].op = "executeSelect" =>
    \A i \in Events(c, "select") :
      LET built == calls[c].trace[i][3]
          o == RequestOptions(calls[c].arg)
      IN /\ FiltersAndOrder(built, calls[c].arg)
         /\ Clauses(built, "limit") =
              IF "limit" \in DOMAIN o /\ o.limit # 0
                THEN << <<"limit", o.limit>> >> ELSE <<>>
         /\ Clauses(built, "offset") =
              IF "offset" \in DOMAIN o /\ o.offset # 0
                THEN << <<"offset", o.offset>> >> ELSE <<>>

(***************************************************************************)
(* Configuration: the pool settings handed to the pool at connect time.    *)
(***************************************************************************)
\* the legacy names of the pool keys with their canonical names
LegacyNames ==
  { <<"acquireTimeout", "acquireTimeoutMillis">>,
    <<"createTimeout", "createTimeoutMillis">>,
    <<"destroyTimeout", "destroyTimeoutMillis">>,
    <<"idleTimeout", "idleTimeoutMillis">>,
    <<"reapInterval", "reapIntervalMillis">>,
    <<"createRetryInterval", "createRetryIntervalMillis">> }

\* connect of call c has just built the pool from this.config
JustBuilt(c) == calls[c].pc = "cn_probe" /\ calls[c].conn # Null

\* the pool settings the pool of call c was built with
Handed(c) == pools[calls[c].conn].cfg.pool

\* the legacy name is given in the pool settings and its canonical name is
\* not: the pool built by call c has the canonical key with the same value
Translated(c, names) ==
  (HasKey(config.pool, names[1]) /\ ~HasKey(config.pool, names[2]))
    => /\ HasKey(Handed(c), names[2])
       /\ GetKey(Handed(c), names[2]) = GetKey(config.pool, names[1])

\* C24 as stated: each legacy pool key given with value v and without its
\* canonical counterpart is handed to the pool at connect time under its
\* canonical *Millis name with value v; pool key acquireTimeout: 5000 yields
\* acquireTimeoutMillis: 5000.
LegacyKeysTranslated ==
  \A c \in Slots : JustBuilt(c) => \A names \in LegacyNames : Translated(c, names)

\* a pool was built with an acquireTimeoutMillis that is not the
\* acquireTimeout given in the pool settings
LegacyAcquireTimeoutLost ==
  \E c \in Slots :
    /\ JustBuilt(c)
    /\ HasKey(config.pool, "acquireTimeout")
    /\ ~HasKey(config.pool, "acquireTimeoutMillis")
    /\ GetKey(Handed(c), "acquireTimeoutMillis") # GetKey(config.pool, "acquireTimeout")

\* the five legacy keys other than acquireTimeout are handed over under
\* their canonical names
OtherLegacyKeysTranslated ==
  \A c \in Slots : JustBuilt(c) =>
    \A names \in LegacyNames : names[1] # "acquireTimeout" => Translated(c, names)

\* a pool was built from settings that give the five other legacy keys
OtherLegacyKeysReached ==
  \E c \in Slots :
    /\ JustBuilt(c)
    /\ \A names \in LegacyNames :
         names[1] # "acquireTimeout" => HasKey(config.pool, names[1])

\* key a comes before key b in the insertion order of the object
Before(obj, a, b) ==
  \E i \in 1..Len(obj) : \E j \in 1..Len(obj) :
    i < j /\ obj[i][1] = a /\ obj[j][1] = b

\* both the legacy and the canonical name are given in the pool settings
BothGiven(names) ==
  HasKey(config.pool, names[1]) /\ HasKey(config.pool, names[2])

\* C25 as stated: when both a legacy pool key and its canonical counterpart
\* are given (createTimeout with createTimeoutMillis, or the legacy
\* acquireTimeout of the configuration with pool.acquireTimeoutMillis), the
\* pool settings built at connect time carry the canonical key's value, in
\* whatever order the keys were given.
CanonicalWins ==
  \A c \in Slots : JustBuilt(c) =>
    /\ \A names \in LegacyNames :
         BothGiven(names) =>
           GetKey(Handed(c), names[2]) = GetKey(config.pool, names[2])
    /\ HasKey(config.pool, "acquireTimeoutMillis") =>
         GetKey(Handed(c), "acquireTimeoutMillis")
           = GetKey(config.pool, "acquireTimeoutMillis")

\* a pool was built with the legacy key's value although the canonical key
\* was given with another value
CanonicalLost ==
  \E c \in Slots :
    /\ JustBuilt(c)
    /\ BothGiven(<<"createTimeout", "createTimeoutMillis">>)
    /\ GetKey(config.pool, "createTimeout") # GetKey(config.pool, "createTimeoutMillis")
    /\ GetKey(Handed(c), "createTimeoutMillis") = GetKey(config.pool, "createTimeout")

\* a pool was built with the acquireTimeout of the configuration although
\* pool.acquireTimeoutMillis was given with another value
CanonicalAcquireTimeoutLost ==
  \E c \in Slots :
    /\ JustBuilt(c)
    /\ HasKey(config.pool, "acquireTimeoutMillis")
    /\ GetKey(config.pool, "acquireTimeoutMillis") # config.acquireTimeout
    /\ GetKey(Handed(c), "acquireTimeoutMillis") = config.acquireTimeout

\* of a legacy key and its canonical counterpart in the pool settings, the
\* one given last is the one handed over
LastGivenWins ==
  \A c \in Slots : JustBuilt(c) =>
    \A names \in LegacyNames :
      (names[1] # "acquireTimeout" /\ BothGiven(names)) =>
        GetKey(Handed(c), names[2]) =
          IF Before(config.pool, names[1], names[2])
            THEN GetKey(config.pool, names[2])
            ELSE GetKey(config.pool, names[1])

\* a pool was built from settings giving the canonical key after the legacy one
CanonicalGivenLastReached ==
  \E c \in Slots :
    /\ JustBuilt(c)
    /\ Before(config.pool, "createTimeout", "createTimeoutMillis")
    /\ GetKey(Handed(c), "createTimeoutMillis") = GetKey(config.pool, "createTimeoutMillis")

\* the canonical names of the pool settings
CanonicalKeys ==
  { "min", "max", "acquireTimeoutMillis", "createTimeoutMillis",
    "destroyTimeoutMillis", "idleTimeoutMillis", "reapIntervalMillis",
    "createRetryIntervalMillis", "maxConnectionLifetimeMillis",
    "maxConnectionLifetimeJitterMillis", "propagateCreateError",
    "validate", "afterCreate" }

\* the names of the keys of an object
KeysOf(obj) == { obj[i][1] : i \in 1..Len(obj) }

\* C26: the pool settings built at connect time contain only canonical
\* allow-listed keys: every unrecognized key of the pool object is dropped,
\* the connect going on without error, and no legacy key name survives.
OnlyCanonicalKeys ==
  \A c \in Slots : JustBuilt(c) =>
    /\ KeysOf(Handed(c)) \subseteq CanonicalKeys
    /\ \A names \in LegacyNames : ~HasKey(Handed(c), names[1])
    /\ calls[c].err = NoErr

\* a pool was built from a pool object with an unrecognized key and legacy
\* keys, and has neither
UnknownKeyDropped ==
  \E c \in Slots :
    /\ JustBuilt(c)
    /\ HasKey(config.pool, "foo")
    /\ HasKey(config.pool, "idleTimeout")
    /\ ~HasKey(Handed(c), "foo")
    /\ ~HasKey(Handed(c), "idleTimeout")

\* the timeouts and intervals of the pool settings
TimeoutKeys ==
  { "acquireTimeoutMillis", "createTimeoutMillis", "destroyTimeoutMillis",
    "idleTimeoutMillis", "reapIntervalMillis", "createRetryIntervalMillis" }

\* C27 as stated: every pool settings value handed to the pool has
\* min <= max and no negative timeout, for every configuration given to the
\* constructor and every sequence of updateConnection calls.
PoolSettingsValid ==
  \A c \in Slots : JustBuilt(c) =>
    /\ GetKey(Handed(c), "min") <= GetKey(Handed(c), "max")
    /\ \A key \in TimeoutKeys :
         HasKey(Handed(c), key) => GetKey(Handed(c), key) >= 0

\* a pool was built with min above max
PoolMinAboveMax ==
  \E c \in Slots :
    JustBuilt(c) /\ GetKey(Handed(c), "min") > GetKey(Handed(c), "max")

\* an updateConnection built a pool with min above max
UpdateMinAboveMax ==
  \E c \in Slots :
    /\ JustBuilt(c)
    /\ calls[c].op = "updateConnection"
    /\ HasKey(PoolOf(calls[c].arg), "max")
    /\ GetKey(Handed(c), "min") > GetKey(Handed(c), "max")

\* a pool was built with a negative timeout
NegativeTimeoutHanded ==
  \E c \in Slots :
    /\ JustBuilt(c)
    /\ HasKey(Handed(c), "idleTimeoutMillis")
    /\ GetKey(Handed(c), "idleTimeoutMillis") < 0

\* a text field of the configuration has a value other than the empty text
NonEmpty(value) == value # Undefined /\ value # ""

\* C28 as stated: after construction and after any sequence of
\* updateConnection calls, host, port, username, password and database of
\* the connection configuration are non-empty.
ConnectionFieldsNonEmpty ==
  /\ NonEmpty(config.host)
  /\ config.port # 0
  /\ NonEmpty(config.username)
  /\ NonEmpty(config.password)
  /\ NonEmpty(config.database)

\* the manager was constructed from a configuration without a database and
\* holds an empty database
DatabaseEmpty ==
  /\ started = 0
  /\ ~NonEmpty(config.database)
  /\ NonEmpty(config.host)
  /\ NonEmpty(config.password)

\* an updateConnection call has left the manager with an empty host
HostEmptied ==
  \E c \in Slots :
    /\ calls[c].op = "updateConnection"
    /\ calls[c].pc = "done"
    /\ config.host = ""

\* right after construction host, port and username have a value, the
\* defaults included
DefaultsAtConstruction ==
  started = 0 =>
    /\ NonEmpty(config.host)
    /\ config.port # 0
    /\ NonEmpty(config.username)

\* a manager constructed without host, port and username has the defaults
DefaultsApplied ==
  /\ started = 0
  /\ config.host = "localhost"
  /\ config.port = DefaultPort
  /\ config.username = "SYSDBA"

(***************************************************************************)
(* Configuration: updateConnection.                                        *)
(***************************************************************************)
\* this step is the one in which updateConnection call c merges its argument
Merges(c) ==
  /\ calls'[c].op = "updateConnection"
  /\ \/ calls[c].pc = "uc_merge"
     \/ calls[c].pc = "idle" /\ ~isConnectedFlag
  /\ calls'[c].pc # "uc_merge"

\* the pool object of the partial configuration, empty when there is none
GivenPool(partial) == IF "pool" \in DOMAIN partial THEN partial.pool ELSE <<>>

\* new is old with the partial configuration merged in, the pool key by key
MergedInto(old, partial, new) ==
  /\ DOMAIN new = DOMAIN old \cup DOMAIN partial
  /\ \A key \in DOMAIN new \ {"pool"} :
       new[key] = IF key \in DOMAIN partial THEN partial[key] ELSE old[key]
  /\ KeysOf(new.pool) = KeysOf(old.pool) \cup KeysOf(GivenPool(partial))
  /\ \A key \in KeysOf(new.pool) :
       GetKey(new.pool, key) =
         IF HasKey(GivenPool(partial), key)
           THEN GetKey(GivenPool(partial), key)
           ELSE GetKey(old.pool, key)

\* C29: updateConnection(partialConfig) merges the partial config into the
\* current configuration, the pool object key by key: every top-level field
\* and every pool key absent from partialConfig keeps its value, every one
\* present takes the new value; nothing else changes the configuration.
UpdateMergesDeep ==
  [][ /\ \A c \in Slots : Merges(c) => MergedInto(config, calls'[c].arg, config')
      /\ config' # config => \E c \in Slots : Merges(c) ]_vars

\* an updateConnection giving host and pool.min has ended: both have the
\* new value, while pool.max and the database have the value they had
MergedDeepReached ==
  \E c \in Slots :
    /\ calls[c].op = "updateConnection"
    /\ calls[c].pc = "done"
    /\ calls[c].arg = [ host |-> "db2", pool |-> << <<"min", 1>> >> ]
    /\ config.host = "db2"
    /\ GetKey(config.pool, "min") = 1
    /\ GetKey(config.pool, "max") = 5
    /\ HasKey(config.pool, "idleTimeout")
    /\ config.database = "a.fdb"

\* the pool entry of the secondary configuration store, if it has one
PoolEntry(st) == IF "pool" \in DOMAIN st THEN <<st.pool>> ELSE <<>>

\* C30: when updateConnection(partialConfig) merges, the secondary
\* configuration store comes to hold partialConfig[k] for every key k of
\* partialConfig other than pool, which is the connection manager's own
\* value for k; the pool entry of the store is not written.
UpdateWritesStore ==
  [][ /\ \A c \in Slots : Merges(c) =>
           \A key \in DOMAIN calls'[c].arg \ {"pool"} :
             /\ key \in DOMAIN store'
             /\ store'[key] = calls'[c].arg[key]
             /\ store'[key] = config'[key]
      /\ PoolEntry(store') = PoolEntry(store) ]_vars

\* an updateConnection giving host and pool.min has ended: the store holds
\* the new host, as the connection manager does, and the pool entry it had,
\* which is no longer the connection manager's pool
StoreWrittenReached ==
  \E c \in Slots :
    /\ calls[c].op = "updateConnection"
    /\ calls[c].pc = "done"
    /\ calls[c].arg = [ host |-> "db2", pool |-> << <<"min", 1>> >> ]
    /\ store.host = "db2"
    /\ config.host = "db2"
    /\ PoolEntry(store) = <<UserConfig.pool>>
    /\ GetKey(config.pool, "min") = 1

(***************************************************************************)
(* validateConnection.                                                     *)
(***************************************************************************)
Validates(c) == calls[c].op = "validateConnection"

\* this step is one of validateConnection call c
ValidateStep(c) == calls'[c].op = "validateConnection" /\ calls'[c] # calls[c]

\* the error the driver raised to call c, if any
RaisedTo(c) ==
  { calls[c].trace[i][2] : i \in { j \in 1..Len(calls[c].trace) :
                                     calls[c].trace[j][1] = "raised" } }

\* the settled call c returned the valid result or an invalid one with the
\* error that was raised
ReturnedVerdict(c) ==
  /\ calls[c].err = NoErr
  /\ "valid" \in DOMAIN calls[c].res
  /\ calls[c].res.valid => calls[c].res = [valid |-> TRUE, message |-> "Conexao valida"]
  /\ ~calls[c].res.valid =>
       /\ DOMAIN calls[c].res = {"valid", "error"}
       /\ \A e \in RaisedTo(c) : calls[c].res.error = e

\* C31: validateConnection never throws and never changes lifecycle state:
\* whether the probe succeeds or fails it returns a valid or an invalid
\* result (with the underlying error when invalid) and leaves the long-lived
\* handle, the connected flag and the connection configuration as they were.
ValidateReturnsAndKeepsState ==
  /\ [](\A c \in Slots : (Validates(c) /\ calls[c].pc = "done") => ReturnedVerdict(c))
  /\ [][ \A c \in Slots : ValidateStep(c) =>
           /\ connection' = connection
           /\ isConnectedFlag' = isConnectedFlag
           /\ config' = config ]_vars

\* on a connected manager a validateConnection whose probe failed has
\* returned the invalid result with the driver's error
ValidateFailedWhileConnected ==
  \E c \in Slots :
    /\ Validates(c)
    /\ calls[c].pc = "done"
    /\ isConnectedFlag
    /\ connection # Null
    /\ RaisedTo(c) # {}
    /\ ~calls[c].res.valid

\* a validateConnection without an argument has returned the valid result
ValidateSucceeded ==
  \E c \in Slots :
    /\ Validates(c)
    /\ calls[c].pc = "done"
    /\ ~calls[c].arg.given
    /\ calls[c].res.valid

\* the throwaway instance validateConnection call c built, if it built one
Throwaway(c) == calls[c].conn

\* C32 as stated: every throwaway connection built by validateConnection is
\* released after the probe, whether the probe succeeds or fails: none is
\* open when validateConnection returns.
ThrowawayReleased ==
  \A c \in Slots :
    (Validates(c) /\ calls[c].pc = "done" /\ Throwaway(c) # Null)
      => pools[Throwaway(c)].state # "open"

\* a validateConnection whose probe failed has returned and its throwaway
\* instance is open
ThrowawayLeftOpen ==
  \E c \in Slots :
    /\ Validates(c)
    /\ calls[c].pc = "done"
    /\ Throwaway(c) # Null
    /\ RaisedTo(c) # {}
    /\ pools[Throwaway(c)].state = "open"

\* when validateConnection returns the valid result its throwaway instance
\* has been destroyed
ThrowawayReleasedWhenValid ==
  \A c \in Slots :
    (Validates(c) /\ calls[c].pc = "done" /\ calls[c].res.valid)
      => pools[Throwaway(c)].state = "destroyed"

(***************************************************************************)
(* getPoolInfo.                                                            *)
(***************************************************************************)
AsksPoolInfo(c) == calls[c].op = "getPoolInfo" /\ calls[c].pc = "done"

\* C33 as stated: getPoolInfo() returns the pool's counts when the manager
\* is connected and null otherwise: in every reachable state, also while a
\* connect() or disconnect() is in progress, it returns non-null if and only
\* if isConnected() is true, and it changes no state.
PoolInfoIffConnected ==
  /\ [](\A c \in Slots : AsksPoolInfo(c) => (calls[c].res # <<>> <=> isConnectedFlag))
  /\ [][ \A c \in Slots : (~AsksPoolInfo(c) /\ AsksPoolInfo(c)') =>
           UNCHANGED << plugins, config, store, connection, isConnectedFlag,
                        pools, durable, monitor >> ]_vars

\* getPoolInfo() returned the counts of the pool a connect() has built and is
\* still probing: the manager is not connected
PoolInfoWhileConnecting ==
  \E c \in Slots : \E b \in Slots :
    /\ AsksPoolInfo(c)
    /\ calls[c].res # <<>>
    /\ ~isConnectedFlag
    /\ calls[b].pc = "cn_probe"

\* while no other call is in flight getPoolInfo() is non-null exactly when
\* the manager is connected
PoolInfoIffConnectedAtRest ==
  \A c \in Slots :
    (AsksPoolInfo(c) /\ \A b \in Slots \ {c} : Free(b))
      => (calls[c].res # <<>> <=> isConnectedFlag)

\* getPoolInfo() returned counts on a connected manager, no call in flight
PoolInfoConnectedReached ==
  \E c \in Slots :
    /\ AsksPoolInfo(c)
    /\ \A b \in Slots \ {c} : Free(b)
    /\ isConnectedFlag
    /\ calls[c].res # <<>>

(***************************************************************************)
(* A query overtaken by a teardown.                                        *)
(***************************************************************************)
\* executeQuery call c has passed the connected check and its beforeQuery
\* dispatch has ended, and meanwhile a close has completed and left the
\* manager without a handle
Overtaken(c) ==
  /\ calls[c].op = "executeQuery"
  /\ calls[c].pc = "eq_exec"
  /\ ~isConnectedFlag
  /\ connection = Null
  /\ \E h \in 1..Len(pools) : pools[h].state = "destroyed"

\* C34 as stated: when the connection is torn down while an executeQuery
\* call is suspended in its beforeQuery dispatch, after the connected check,
\* the call fails with the not-connected error and never attempts the
\* statement through a null handle.
OvertakenQueryNotConnected ==
  [][ \A c \in Slots : (Overtaken(c) /\ calls'[c] # calls[c]) =>
        calls'[c].err = <<"Conexao com o banco de dados nao esta ativa">> ]_vars

\* an executeQuery call overtaken by a disconnect has failed with the
\* TypeError of a call on the null handle
OvertakenQueryNullHandle ==
  \E c \in Slots :
    /\ calls[c].op = "executeQuery"
    /\ calls[c].pc = "done"
    /\ calls[c].err = <<"TypeError">>
    /\ \E i \in 1..Len(calls[c].trace) :
         calls[c].trace[i] = <<"dispatch", "beforeQuery", calls[c].arg>>

(***************************************************************************)
(* The pools the manager builds.                                           *)
(***************************************************************************)
\* the pools connect built in call c
BuiltBy(c) == { calls[c].trace[i][2] : i \in Events(c, "knex") }

\* call c ran connect(), and it has failed
ConnectFailed(c) ==
  /\ calls[c].op \in {"connect", "updateConnection"}
  /\ calls[c].pc = "done"
  /\ calls[c].err # NoErr

\* C35 as stated: every pool built by a connect() attempt that then fails,
\* by its liveness probe or by an afterConnect observer, is closed: after a
\* failed connect() no pool it built is open.
FailedConnectClosesPool ==
  \A c \in Slots : ConnectFailed(c) =>
    \A h \in BuiltBy(c) : pools[h].state # "open"

\* a connect() whose probe failed has ended and the pool it built is open
FailedProbePoolOpen ==
  \E c \in Slots :
    /\ ConnectFailed(c)
    /\ Events(c, "raised") # {}
    /\ \E h \in BuiltBy(c) : pools[h].state = "open" /\ connection # h

\* a connect() whose afterConnect observer threw has ended and the pool it
\* built is open
FailedAfterConnectPoolOpen ==
  \E c \in Slots :
    /\ ConnectFailed(c)
    /\ Throws(c, "afterConnect") # {}
    /\ \E h \in BuiltBy(c) : pools[h].state = "open" /\ connection # h

\* the pools that are open
OpenPools == { h \in 1..Len(pools) : pools[h].state = "open" }

\* C36 as stated: at most one pool built by the manager is open at any
\* time: a connect() called while connected never leaves an earlier pool
\* open that the manager no longer refers to.
AtMostOnePoolOpen ==
  /\ Cardinality(OpenPools) <= 1
  /\ \A h \in OpenPools : connection = h

\* a connect() called on a connected manager has succeeded, and the pool of
\* the earlier connect() is open beside the one the manager holds
EarlierPoolOrphaned ==
  \E c \in Slots :
    /\ calls[c].op = "connect"
    /\ calls[c].pc = "done"
    /\ calls[c].err = NoErr
    /\ isConnectedFlag
    /\ connection \in BuiltBy(c)
    /\ \E h \in OpenPools : h < connection
    /\ \A h \in 1..Len(pools) : pools[h].state = "open"

(***************************************************************************)
(* Observers notified by the engine and by the monitoring listeners.       *)
(***************************************************************************)
\* the callbacks of this phase the engine's own dispatches called in call c,
\* by position in the plugin list
EngineCalls(c, phase) ==
  { i \in Events(c, "call") : calls[c].trace[i][2] = phase }

\* C37 as stated: for one successful executeQuery call on a connected manager
\* with its monitoring listeners installed, each registered observer's
\* beforeQuery is invoked exactly once and its afterQuery exactly once: the
\* engine's dispatch and the listeners of the connection's 'query' and
\* 'query-response' events do not both notify observers for one statement.
QueryHooksOnce ==
  \A c \in Slots : calls[c].op = "executeQuery" =>
    /\ \A phase \in {"beforeQuery", "afterQuery"} :
         EngineCalls(c, phase) # {} => Listening(c, phase) = {}
    /\ (calls[c].pc = "done" /\ calls[c].err = NoErr) =>
         \A phase \in {"beforeQuery", "afterQuery"} :
           \A j \in 1..Len(plugins) :
             (phase \in Capabilities(plugins[j])) =>
               Cardinality({ i \in EngineCalls(c, phase) :
                               calls[c].trace[i][3] = j }) = 1

\* the statement of an executeQuery call has been issued: an observer's
\* beforeQuery, which the engine's dispatch has called, is being called again
\* by the listener of the 'query' event
BeforeQueryNotifiedTwice ==
  \E c \in Slots :
    /\ calls[c].op = "executeQuery"
    /\ calls[c].pc = "q_raw"
    /\ \E m \in Listening(c, "beforeQuery") :
         \E i \in EngineCalls(c, "beforeQuery") :
           calls[c].trace[i][3] = monitor[m].i

\* an observer's afterQuery is called by the engine's dispatch and by the
\* listener of the 'query-response' event for the rows of one statement
AfterQueryNotifiedTwice ==
  \E c \in Slots :
    /\ calls[c].op = "executeQuery"
    /\ \E m \in Listening(c, "afterQuery") :
         \E i \in EngineCalls(c, "afterQuery") :
           /\ calls[c].trace[i][3] = monitor[m].i
           /\ monitor[m].arg = calls[c].results[1]

\* the engine's own dispatches call each observer's beforeQuery and
\* afterQuery once in a successful executeQuery call
EngineHooksOnce ==
  \A c \in Slots :
    (calls[c].op = "executeQuery" /\ calls[c].pc = "done" /\ calls[c].err = NoErr) =>
      \A phase \in {"beforeQuery", "afterQuery"} :
        \A j \in 1..Len(plugins) :
          (phase \in Capabilities(plugins[j])) =>
            Cardinality({ i \in EngineCalls(c, phase) :
                            calls[c].trace[i][3] = j }) = 1

(***************************************************************************)
(* updateConnection whose disconnect fails.                                *)
(***************************************************************************)
\* the disconnect() inside updateConnection call c has thrown: a
\* beforeDisconnect observer threw, or the close that was issued failed
DisconnectFailedIn(c) ==
  /\ calls[c].op = "updateConnection"
  /\ \/ Throws(c, "beforeDisconnect") # {}
     \/ /\ Events(c, "destroy") # {}
        /\ Events(c, "destroyed") = {}
        /\ calls[c].pc # "dc_destroy"

\* the error disconnect() of call c throws: what its catch block caught,
\* unless an onError observer threw while the catch block dispatched it
DisconnectErrorOf(c) ==
  LET tr == calls[c].trace
  IN IF Throws(c, "onError") # {}
       THEN <<"Observer", "onError", tr[CHOOSE i \in Throws(c, "onError") : TRUE][3]>>
     ELSE IF Throws(c, "beforeDisconnect") # {}
       THEN <<"Observer", "beforeDisconnect",
              tr[CHOOSE i \in Throws(c, "beforeDisconnect") : TRUE][3]>>
     ELSE <<"Destroy", calls[c].id>>

\* C38: when disconnect() fails inside updateConnection(partialConfig), the
\* call fails with the error disconnect() threw, the connection
\* configuration and the secondary store are left as they were, and no
\* connect() is attempted.
UpdateStopsWhenDisconnectFails ==
  /\ [](\A c \in Slots : DisconnectFailedIn(c) =>
          /\ Dispatches(c, "beforeConnect") = {}
          /\ Events(c, "knex") = {}
          /\ Settled(c) => calls[c].err = DisconnectErrorOf(c))
  /\ [][ \A c \in Slots :
           (calls'[c].op = "updateConnection" /\ DisconnectFailedIn(c)') =>
             config' = config /\ store' = store ]_vars

\* an updateConnection giving a new host has failed with the error of the
\* close, and the manager and the store have the host they had
UpdateFailedOnClose ==
  \E c \in Slots :
    /\ Settled(c)
    /\ DisconnectFailedIn(c)
    /\ calls[c].err = <<"Destroy", calls[c].id>>
    /\ calls[c].arg = [ host |-> "db2", pool |-> << <<"min", 1>> >> ]
    /\ config.host = "db1"
    /\ store.host = "db1"
    /\ isConnectedFlag

(***************************************************************************)
(* The configuration store and the connection configuration.               *)
(***************************************************************************)
ConnectionFields == {"host", "port", "username", "password", "database"}

\* the user name is passed to the driver as user
DriverField(key) == IF key = "username" THEN "user" ELSE key

\* C39 as stated: in every state reached by setConfig, updateConnection and
\* connect, the configuration store and the connection configuration agree
\* on host, port, username, password and database, so that a connect()
\* following setConfig(key, value) connects with the new value.
StoreAgreesWithConfig ==
  /\ \A key \in ConnectionFields : store[key] = config[key]
  /\ \A c \in Slots : JustBuilt(c) =>
       \A key \in ConnectionFields :
         pools[calls[c].conn].cfg[DriverField(key)] = store[key]

\* after setConfig('host', 'db3') a connect() has built its pool for the
\* host the manager was constructed with
SetConfigIgnoredByConnect ==
  \E c \in Slots :
    /\ JustBuilt(c)
    /\ calls[c].op = "connect"
    /\ store.host = "db3"
    /\ config.host = "db1"
    /\ pools[calls[c].conn].cfg.host = "db1"

\* as long as setConfig has given the store no value, the store and the
\* connection configuration agree
StoreAgreesWithoutSetConfig ==
  (\A setting \in ConfigSettings : store[setting[1]] # setting[2]) =>
    \A key \in ConnectionFields : store[key] = config[key]

\* an updateConnection has given the store and the manager a new host
StoreAgreesAfterUpdate ==
  \E c \in Slots :
    /\ calls[c].op = "updateConnection"
    /\ Settled(c)
    /\ store.host = "db2"
    /\ config.host = "db2"
=============================================================================
